---------------------------- MODULE Spec2Model ----------------------------
(***************************************************************************)
(* A model of paper_indexer: the retrying HTTP request, the three source   *)
(* fetchers, the derivation of point ids, the chunked embed-and-upsert     *)
(* pipeline and the query builder.                                         *)
(*                                                                         *)
(* Each component has its own specification (SpecDerive, SpecRetry, ...),  *)
(* all over the same variables; a specification leaves the frames of the   *)
(* components it does not run at their idle value.                         *)
(***************************************************************************)
EXTENDS Integers, Sequences, FiniteSets, TLC

VARIABLES
    md5tab,     \* hashlib.md5 on the strings of the model: string -> 16 hex digits
    ids,        \* the calls of get_point_id made so far: <<[arg, result], ...>>
    rq,         \* the frame of retry_request: pc, attempt, max_retries, ...
    http,       \* what the current retry_request call did: requests and sleeps
    fx,         \* the frame of the running fetcher (a generator)
    served,     \* what the source gave the fetcher: lines read, pages received
    emitted,    \* the records the fetcher has yielded, in order
    consumed,   \* how many of them the consumer has taken
    pl,         \* the frame of _process_*: pc, chunk, run, position in R
    R,          \* the records the fetcher yields to the pipeline, in order
    calls,      \* embed and upsert calls of the current run, with their batches
    store,      \* the collection: a set of points [id, payload]
    store1,     \* the store as the first run left it
    ix,         \* the frame of index(): pc, arguments, outcome
    coll,       \* the collection of the store: exists, vectors, indexes
    other,      \* the frames of a second run of index() that is not running
    qin,        \* the arguments of the query() call
    searches    \* the query_points calls issued: <<[filter, limit], ...>>

hashVars  == <<md5tab, ids>>
retryVars == <<rq, http>>
fetchVars == <<fx, served, emitted, consumed>>
pipeVars  == <<pl, R, calls, store, store1, ix, coll, other>>
queryVars == <<qin, searches>>
vars == <<md5tab, ids, rq, http, fx, served, emitted, consumed,
          pl, R, calls, store, store1, ix, coll, other, qin, searches>>

\* Python's None, where a string may stand, and where an object may stand
None == "None"

NoneObj == [kind |-> "None"]

Min(a, b) == IF a <= b THEN a ELSE b

Max(a, b) == IF a >= b THEN a ELSE b

RECURSIVE SumSeq(_)
SumSeq(s) == IF s = <<>> THEN 0 ELSE Head(s) + SumSeq(Tail(s))

(***************************************************************************)
(* Idle values of the frames.                                              *)
(***************************************************************************)
IdleRq == [pc |-> "idle"]
IdleFx == [kind |-> "none", pc |-> "idle"]
IdlePl == [pc |-> "idle"]
IdleQ  == [pc |-> "idle"]
IdleIx == [pc |-> "idle"]

\* the store without the collection
AbsentCollection == [exists |-> FALSE, vectors |-> NoneObj, indexes |-> <<>>]

HashIdle  == md5tab = <<>> /\ ids = <<>>
RetryIdle == rq = IdleRq /\ http = <<>>
FetchIdle == fx = IdleFx /\ served = <<>> /\ emitted = <<>> /\ consumed = 0
PipeIdle  == /\ pl = IdlePl /\ R = <<>> /\ calls = <<>>
             /\ store = {} /\ store1 = {}
             /\ ix = IdleIx /\ coll = AbsentCollection /\ other = NoneObj
QueryIdle == qin = IdleQ /\ searches = <<>>

(***************************************************************************)
(* 64-bit unsigned integers.  TLC's integers are 32 bits wide, so a 64-bit *)
(* value is four 16-bit limbs, most significant first.                     *)
(***************************************************************************)
LimbBase == 65536

Limb == 0 .. (LimbBase - 1)

U64 == Limb \X Limb \X Limb \X Limb

U64Zero == <<0, 0, 0, 0>>

\* 2^63 - 1 = 0x7fffffffffffffff
Modulus == <<32767, 65535, 65535, 65535>>

\* a < b, comparing from the most significant limb
U64Lt(a, b) ==
    \E i \in 1..4 : a[i] < b[i] /\ \A j \in 1..(i - 1) : a[j] = b[j]

U64Geq(a, b) == ~U64Lt(a, b)

\* a - b for a >= b
U64Sub(a, b) ==
    LET d4 == a[4] - b[4]
        w4 == IF d4 < 0 THEN 1 ELSE 0
        d3 == a[3] - b[3] - w4
        w3 == IF d3 < 0 THEN 1 ELSE 0
        d2 == a[2] - b[2] - w3
        w2 == IF d2 < 0 THEN 1 ELSE 0
        d1 == a[1] - b[1] - w2
    IN  <<d1 % LimbBase, d2 % LimbBase, d3 % LimbBase, d4 % LimbBase>>

\* a + b as five limbs: the carry out of bit 64, then the sum's four limbs
U64Add(a, b) ==
    LET s4 == a[4] + b[4]
        s3 == a[3] + b[3] + (s4 \div LimbBase)
        s2 == a[2] + b[2] + (s3 \div LimbBase)
        s1 == a[1] + b[1] + (s2 \div LimbBase)
    IN  <<s1 \div LimbBase, s1 % LimbBase, s2 % LimbBase, s3 % LimbBase,
          s4 % LimbBase>>

\* x % m for 0 < m, as the non-negative remainder Python's % gives
RECURSIVE U64Mod(_, _)
U64Mod(x, m) == IF U64Lt(x, m) THEN x ELSE U64Mod(U64Sub(x, m), m)

(***************************************************************************)
(* hashlib.md5(...).hexdigest()[:16] and int(..., 16).                     *)
(***************************************************************************)
HexDigit == 0..15

\* the strings with their real digests (first 16 hex digits)
Md5Known ==
    [s \in {"", "0704.0001", "0704.0002"} |->
        CASE s = ""          -> <<13,4,1,13, 8,12,13,9, 8,15,0,0, 11,2,0,4>>
          [] s = "0704.0001" -> <<1,9,14,9, 15,10,8,4, 8,1,15,8, 5,5,7,15>>
          [] s = "0704.0002" -> <<14,14,6,1, 5,4,7,11, 13,11,12,13, 1,9,9,3>>]

KnownStrings == DOMAIN Md5Known

\* strings standing for the inputs whose digest lies at an edge of the range
EdgeStrings == {"s1", "s2"}

Strings == KnownStrings \cup EdgeStrings

Rep(d, n) == [i \in 1..n |-> d]

EdgeDigests ==
    { Rep(0, 16),                      \* 0
      <<7>> \o Rep(15, 14) \o <<14>>,  \* 2^63 - 2
      <<7>> \o Rep(15, 15),            \* 2^63 - 1
      <<8>> \o Rep(0, 15),             \* 2^63
      Rep(15, 15) \o <<13>>,           \* 2^64 - 3
      Rep(15, 15) \o <<14>>,           \* 2^64 - 2
      Rep(15, 16) }                    \* 2^64 - 1

Md5Tables ==
    { [s \in Strings |-> IF s \in KnownStrings THEN Md5Known[s] ELSE e[s]] :
        e \in [EdgeStrings -> EdgeDigests] }

\* md5[:16] of paper_id.encode()
Md5Hex16(paper_id) == md5tab[paper_id]

\* int(h, 16) of 16 hex digits
IntHex16(h) ==
    [k \in 1..4 |-> h[4*k - 3] * 4096 + h[4*k - 2] * 256 + h[4*k - 1] * 16 + h[4*k]]

\* get_point_id without the reduction modulo 2^63 - 1
get_point_id_nomod(paper_id) == IntHex16(Md5Hex16(paper_id))

get_point_id(paper_id) == U64Mod(IntHex16(Md5Hex16(paper_id)), Modulus)

(***************************************************************************)
(* SpecDerive: get_point_id called on one string after another.            *)
(***************************************************************************)
MaxCalls == 2

InitDerive ==
    /\ md5tab \in Md5Tables
    /\ ids = <<>>
    /\ RetryIdle /\ FetchIdle /\ PipeIdle /\ QueryIdle

DeriveCall ==
    /\ Len(ids) < MaxCalls
    /\ \E s \in Strings :
          ids' = Append(ids, [arg |-> s, result |-> get_point_id(s)])
    /\ UNCHANGED <<md5tab, retryVars, fetchVars, pipeVars, queryVars>>

NextDerive == DeriveCall

SpecDerive == InitDerive /\ [][NextDerive]_vars

\* C10: every call of get_point_id returns a value r with 0 <= r < 2^63 - 1
\* that is congruent to the 64-bit digest prefix modulo 2^63 - 1 (digest =
\* q * (2^63 - 1) + r for a q in 0..2), for every string, the empty one
\* included, and two calls with the same string return the same value.
C10_DeriveIdTotalDeterministic ==
    /\ \A i \in 1..Len(ids) :
          LET r == ids[i].result
              x == IntHex16(md5tab[ids[i].arg])
          IN  /\ r \in U64
              /\ U64Lt(r, Modulus)
              /\ \E q \in {U64Zero, Modulus, Tail(U64Add(Modulus, Modulus))} :
                    U64Add(q, r) = <<0>> \o x
    /\ \A i, j \in 1..Len(ids) :
          ids[i].arg = ids[j].arg => ids[i].result = ids[j].result

\* the empty string and an input whose digest is >= 2^63 - 1 were both derived
C10_Witness ==
    /\ \E i \in 1..Len(ids) : ids[i].arg = ""
    /\ \E i \in 1..Len(ids) :
          /\ ids[i].arg \in EdgeStrings
          /\ U64Geq(IntHex16(md5tab[ids[i].arg]), Modulus)

(***************************************************************************)
(* What the paginated APIs answer.  A JSON object is a record, its keys    *)
(* the record's fields: a key the object lacks is a field the record lacks.*)
(* A JSON null is None.                                                    *)
(***************************************************************************)
\* a text is the sequence of its characters; str.split() cuts it at runs of
\* whitespace and " ".join puts one space between the pieces
Whitespace == {" ", "\t", "\n"}

RECURSIVE SkipWs(_)
SkipWs(s) ==
    IF s # <<>> /\ Head(s) \in Whitespace THEN SkipWs(Tail(s)) ELSE s

RECURSIVE Collapse(_)
Collapse(s) ==
    IF s = <<>> THEN <<>>
    ELSE IF Head(s) \in Whitespace
         THEN IF SkipWs(s) = <<>> THEN <<>> ELSE <<" ">> \o Collapse(SkipWs(s))
         ELSE <<Head(s)>> \o Collapse(Tail(s))

\* " ".join(str(abstract).split())
NormalizeWs(s) == Collapse(SkipWs(s))

\* dict.get(key, default)
DictGet(d, key, default) == IF key \in DOMAIN d THEN d[key] ELSE default

\* entries of a biorxiv `collection`: one with the unprefixed fields, one
\* with the preprint_ fields, one whose title is null
BioItem1 ==
    [doi |-> "0704.0001", title |-> "t1", abstract |-> <<"a", " ", "\n", "b">>,
     authors |-> "A", date |-> <<2024, 1, 1>>, category |-> "biology"]

BioItem2 ==
    [preprint_doi |-> "0704.0002", preprint_title |-> "t2", title |-> "x2",
     preprint_date |-> <<2024, 1, 2>>]

BioItemBad == [doi |-> "0704.0001", title |-> None]

BioCollections ==
    { <<>>, <<BioItem1>>, <<BioItem1, BioItem2>>, <<BioItem2, BioItemBad>> }

\* a JSON number is [int |-> n], a JSON string [str |-> its characters]
DigitOf ==
    [c \in {"0", "1", "2", "3", "4", "5", "6", "7", "8", "9"} |->
        CASE c = "0" -> 0 [] c = "1" -> 1 [] c = "2" -> 2 [] c = "3" -> 3
          [] c = "4" -> 4 [] c = "5" -> 5 [] c = "6" -> 6 [] c = "7" -> 7
          [] c = "8" -> 8 [] c = "9" -> 9]

\* int(x) raises ValueError on a string that is not a number
PyIntFails(x) ==
    "str" \in DOMAIN x
        /\ (x.str = <<>> \/ \E i \in 1..Len(x.str) : x.str[i] \notin DOMAIN DigitOf)

RECURSIVE DecimalValue(_)
DecimalValue(s) ==
    IF s = <<>> THEN 0
    ELSE 10 * DecimalValue(SubSeq(s, 1, Len(s) - 1)) + DigitOf[s[Len(s)]]

\* int(x) of a number, or of a string of decimal digits
PyInt(x) == IF "int" \in DOMAIN x THEN x.int ELSE DecimalValue(x.str)

\* `messages` arrays: without and with an entry of type cursor_value, the
\* cursor of the entry a number, a numeric string, no number, or missing
BioMessages ==
    { <<>>,
      <<[status |-> "ok"]>>,
      <<[status |-> "ok"], [type |-> "cursor_value", cursor |-> [int |-> 100]]>>,
      <<[type |-> "cursor_value", cursor |-> [str |-> <<"3", "0">>]]>>,
      <<[type |-> "cursor_value", cursor |-> [str |-> <<"x">>]]>>,
      <<[type |-> "cursor_value"]>> }

\* the bodies of a biorxiv response: not JSON, or an object with or without
\* a collection and with or without messages
BioBodies ==
    {[json |-> FALSE]}
      \cup { [json |-> TRUE, collection |-> c, messages |-> m] :
               c \in BioCollections, m \in BioMessages }
      \cup { [json |-> TRUE, messages |-> m] : m \in BioMessages }
      \cup { [json |-> TRUE, collection |-> c] : c \in BioCollections }

\* entries of a chemrxiv `itemHits`: a bare item, an item inside a hit, an
\* item whose title is null
ChemItem1 ==
    [doi |-> "0704.0001", title |-> "t1", description |-> <<"a", " ", "\n", "b">>,
     authors |-> <<[name |-> "A"], [id |-> "a2"], [name |-> "B"]>>,
     publishedDate |-> <<2024, 1, 1>>,
     categories |-> <<[name |-> "Catalysis"], [name |-> ""], [id |-> "c3"]>>]

ChemItem2 == [item |-> [doi |-> "0704.0002", title |-> "t2"]]

ChemItemBad == [doi |-> "0704.0001", title |-> None]

MaxItems == 3

\* the bodies of a chemrxiv response: not JSON, an object without itemHits,
\* or one with any number of hits, whatever number was asked for
ChemBodies ==
    {[json |-> FALSE], [json |-> TRUE]}
      \cup { [json |-> TRUE, itemHits |-> [i \in 1..k |-> ChemItem1]] :
               k \in 0..MaxItems }
      \cup { [json |-> TRUE, itemHits |-> <<ChemItem2>>],
             [json |-> TRUE, itemHits |-> <<ChemItem1, ChemItemBad>>] }

\* the servers of the runs of index(): a page is long enough for two of them
\* to fill a batch
IndexPageLen == 60

\* page_size of ChemrxivFetcher.fetch_papers, which index() leaves at its
\* default
ChemPageSize == 100

CursorMessages ==
    <<[status |-> "ok"], [type |-> "cursor_value", cursor |-> [int |-> 100]]>>

\* what the biorxiv server answers in a run of index(): no JSON, an empty
\* collection, a long page with a cursor, a last page, a page with an entry
\* that does not normalize, a page whose cursor is no number
IndexBioBodies ==
    { [json |-> FALSE],
      [json |-> TRUE, collection |-> <<>>, messages |-> CursorMessages],
      [json |-> TRUE,
       collection |-> [i \in 1..IndexPageLen |->
                          IF i % 2 = 1 THEN BioItem1 ELSE BioItem2],
       messages |-> CursorMessages],
      [json |-> TRUE, collection |-> <<BioItem1, BioItem2>>, messages |-> <<>>],
      [json |-> TRUE, collection |-> <<BioItem2, BioItemBad>>,
       messages |-> CursorMessages],
      [json |-> TRUE, collection |-> <<BioItem1>>,
       messages |-> <<[type |-> "cursor_value", cursor |-> [str |-> <<"x">>]]>>] }

\* what the chemrxiv server answers in a run of index(): no JSON, no
\* itemHits, a full page, a short page, a page with an item that does not
\* normalize
IndexChemBodies ==
    { [json |-> FALSE],
      [json |-> TRUE],
      [json |-> TRUE,
       itemHits |-> [i \in 1..ChemPageSize |->
                        IF i % 2 = 1 THEN ChemItem1 ELSE ChemItem2]],
      [json |-> TRUE, itemHits |-> [i \in 1..IndexPageLen |-> ChemItem1]],
      [json |-> TRUE, itemHits |-> <<ChemItem1, ChemItemBad>>] }

(***************************************************************************)
(* utils.retry_request.  One call is a frame rq; every await of the call   *)
(* (the request, the sleep) is a step.  http is what the call has done.    *)
(***************************************************************************)
MaxRetries == 3

MaxBackoff == 2

\* the status codes a response carries in the model
StatusCodes == {200, 404, 503}

\* raise_for_status raising for server errors only
RaiseForStatus5xx(status) == status >= 500

\* response.raise_for_status() raises unless the status is 2xx

RaiseForStatus(status) == ~(200 <= status /\ status <= 299)

\* range(max_retries)
Range(n) == 0 .. (n - 1)

\* the sleep of a failed attempt: backoff_factor * (2**attempt)
WaitTime(backoff_factor, attempt) == backoff_factor * (2 ^ attempt)

\* the guard of the sleep off by one: a sleep after the last attempt too
SleepsAfterAlways(attempt, max_retries) == attempt < max_retries

\* `if attempt < max_retries - 1` : sleep and go on, else raise

SleepsAfter(attempt, max_retries) == attempt < max_retries - 1

\* the frame of a call that has just entered the loop
RetryFrame(max_retries, backoff_factor) ==
    [pc |-> "loop", attempt |-> 0, max_retries |-> max_retries,
     backoff_factor |-> backoff_factor, last_exception |-> NoneObj,
     response |-> NoneObj, error |-> NoneObj]

\* the bodies the server may answer the current request with
Bodies ==
    CASE fx.kind = "biorxiv" -> IF ix = IdleIx THEN BioBodies ELSE IndexBioBodies
      [] fx.kind = "chemrxiv" -> IF ix = IdleIx THEN ChemBodies ELSE IndexChemBodies
      [] OTHER -> {"body"}

\* await client.request(...): a response, or a transport error (a timeout,
\* a connection error) raised as httpx.HTTPError
RetryAttempt ==
    /\ rq.pc = "loop"
    /\ rq.attempt \in Range(rq.max_retries)
    /\ \/ \E status \in StatusCodes, body \in Bodies :
             IF RaiseForStatus(status)
             THEN LET e == [kind |-> "status", status |-> status,
                            attempt |-> rq.attempt]
                  IN  /\ http' = Append(http, [ev |-> "request",
                                   attempt |-> rq.attempt, outcome |-> "status"])
                      /\ rq' = IF SleepsAfter(rq.attempt, rq.max_retries)
                               THEN [rq EXCEPT !.last_exception = e,
                                               !.pc = "sleep"]
                               ELSE [rq EXCEPT !.last_exception = e,
                                               !.pc = "raised", !.error = e]
             ELSE /\ http' = Append(http, [ev |-> "request",
                               attempt |-> rq.attempt, outcome |-> "ok"])
                  /\ rq' = [rq EXCEPT !.pc = "returned",
                              !.response = [status |-> status, body |-> body,
                                            attempt |-> rq.attempt]]
       \/ LET e == [kind |-> "transport", status |-> 0, attempt |-> rq.attempt]
          IN  /\ http' = Append(http, [ev |-> "request",
                           attempt |-> rq.attempt, outcome |-> "transport"])
              /\ rq' = IF SleepsAfter(rq.attempt, rq.max_retries)
                       THEN [rq EXCEPT !.last_exception = e, !.pc = "sleep"]
                       ELSE [rq EXCEPT !.last_exception = e,
                                       !.pc = "raised", !.error = e]
    /\ UNCHANGED <<hashVars, fetchVars, pipeVars, queryVars>>

\* await asyncio.sleep(wait_time), then the next iteration
RetrySleep ==
    /\ rq.pc = "sleep"
    /\ http' = Append(http, [ev |-> "sleep",
                 wait |-> WaitTime(rq.backoff_factor, rq.attempt)])
    /\ rq' = [rq EXCEPT !.pc = "loop", !.attempt = rq.attempt + 1]
    /\ UNCHANGED <<hashVars, fetchVars, pipeVars, queryVars>>

\* the loop is over without a return: raise last_exception or
\* httpx.HTTPError("Request failed")
RetryFallThrough ==
    /\ rq.pc = "loop"
    /\ rq.attempt \notin Range(rq.max_retries)
    /\ rq' = [rq EXCEPT !.pc = "raised",
                !.error = IF rq.last_exception # NoneObj THEN rq.last_exception
                          ELSE [kind |-> "request_failed", status |-> 0,
                                attempt |-> rq.attempt]]
    /\ UNCHANGED <<http, hashVars, fetchVars, pipeVars, queryVars>>

(***************************************************************************)
(* SpecRetry: one call of retry_request, for every max_retries and         *)
(* backoff_factor of the bounds and every outcome of every attempt.        *)
(***************************************************************************)
InitRetry ==
    /\ \E mr \in 0..MaxRetries, bf \in 0..MaxBackoff : rq = RetryFrame(mr, bf)
    /\ http = <<>>
    /\ HashIdle /\ FetchIdle /\ PipeIdle /\ QueryIdle

NextRetry ==
    \/ RetryAttempt
    \/ RetrySleep
    \/ RetryFallThrough

SpecRetry == InitRetry /\ [][NextRetry]_vars

Requests == { i \in 1..Len(http) : http[i].ev = "request" }

Sleeps == { i \in 1..Len(http) : http[i].ev = "sleep" }

\* C3: a call with max_retries >= 1 issues at most max_retries attempts and
\* none after a success; it returns only the response of an attempt that
\* succeeded (a 2xx status), the first such attempt, all attempts before it
\* having failed; it raises only after max_retries failed attempts, then the
\* error of the last attempt, and holds no response.
C3_RetryBounded ==
    rq.max_retries >= 1 =>
      /\ Cardinality(Requests) <= rq.max_retries
      /\ \A i \in Requests : http[i].outcome = "ok" => i = Len(http)
      /\ rq.pc \in {"loop", "sleep", "returned", "raised"}
      /\ rq.pc = "returned" <=>
            (http # <<>> /\ http[Len(http)].ev = "request"
                         /\ http[Len(http)].outcome = "ok")
      /\ rq.pc = "returned" =>
            /\ rq.response # NoneObj
            /\ 200 <= rq.response.status /\ rq.response.status <= 299
            /\ rq.response.attempt = Cardinality(Requests) - 1
            /\ rq.error = NoneObj
      /\ rq.pc = "raised" =>
            /\ Cardinality(Requests) = rq.max_retries
            /\ \A i \in Requests : http[i].outcome # "ok"
            /\ rq.response = NoneObj
            /\ rq.error.attempt = rq.max_retries - 1
            /\ rq.error.kind = http[Len(http)].outcome
      /\ rq.pc # "returned" => rq.response = NoneObj

\* a call returned on its third attempt, and another raised after three
C3_WitnessReturned ==
    /\ rq.pc = "returned" /\ rq.max_retries = 3 /\ rq.response.attempt = 2

\* C4: the call alternates attempts and waits, starting with an attempt:
\* the k-th attempt (from 0) is event 2k+1, the wait after it is event 2k+2
\* and lasts backoff_factor * 2^k; a finished call ends on an attempt, so a
\* call that fails every time made max_retries attempts and max_retries - 1
\* waits, each wait twice the one before.
C4_BackoffSchedule ==
    rq.max_retries >= 1 =>
      /\ \A i \in 1..Len(http) :
            IF i % 2 = 1
            THEN http[i].ev = "request" /\ http[i].attempt = (i - 1) \div 2
            ELSE /\ http[i].ev = "sleep"
                 /\ http[i].wait = rq.backoff_factor * 2 ^ ((i \div 2) - 1)
                 /\ http[i - 1].outcome # "ok"
      /\ \A i \in Sleeps : i > 2 => http[i].wait = 2 * http[i - 2].wait
      /\ rq.pc \in {"returned", "raised"} =>
            http # <<>> /\ http[Len(http)].ev = "request"
      /\ rq.pc = "raised" =>
            /\ Cardinality(Requests) = rq.max_retries
            /\ Cardinality(Sleeps) = rq.max_retries - 1

\* three attempts failed with backoff_factor 2: the waits were 2 and 4
C4_Witness ==
    /\ rq.pc = "raised" /\ rq.max_retries = 3 /\ rq.backoff_factor = 2
    /\ Len(http) = 5 /\ http[2].wait = 2 /\ http[4].wait = 4

(***************************************************************************)
(* The consumer of a fetcher's generator.  A generator runs only while the *)
(* consumer waits in next(): a fetcher steps only when every record it     *)
(* yielded has been taken.  In the fetcher specifications the consumer is  *)
(* the loop of the tests, `papers.append(paper)`.                          *)
(***************************************************************************)
ConsumerWaits == consumed = Len(emitted)

Collect ==
    /\ fx.kind # "none"
    /\ consumed < Len(emitted)
    /\ consumed' = consumed + 1
    /\ UNCHANGED <<fx, served, emitted, hashVars, retryVars, pipeVars, queryVars>>

(***************************************************************************)
(* fetchers.arxiv.ArxivFetcher.  A date string "YYYY-MM-DD" is the tuple   *)
(* of its three numbers, the empty tuple when no date is given; a line of  *)
(* the snapshot file is its JSON record, or a line that does not parse     *)
(* into one.                                                               *)
(***************************************************************************)
MaxFileLen == 3

MaxLimit == 2

NoDate == <<>>

ArxivLines ==
    { [ok |-> TRUE, id |-> "0704.0001", update_date |-> <<2023, 1, 1>>,
       categories |-> <<"cs.AI">>],
      [ok |-> TRUE, id |-> "0704.0002", update_date |-> <<2023, 6, 1>>,
       categories |-> <<"cs.AI", "math.CO">>],
      [ok |-> TRUE, id |-> "", update_date |-> <<2024, 1, 1>>,
       categories |-> <<"math.CO">>],
      [ok |-> FALSE] }

ArxivStartDates == {NoDate, <<2023, 3, 1>>, <<2023, 6, 1>>}

ArxivEndDates == {NoDate, <<2023, 12, 31>>, <<2023, 6, 1>>}

ArxivCategories == {None, "cs.AI"}

\* the files of at most n lines
FilesUpTo(n) == UNION { [1..k -> ArxivLines] : k \in 0..n }

\* datetime.fromisoformat of a date string: midnight of that day
FromIsoFormat(s) ==
    [year |-> s[1], month |-> s[2], day |-> s[3], hour |-> 0, minute |-> 0]

\* datetime.__lt__
DatetimeLt(a, b) ==
    LET x == <<a.year, a.month, a.day, a.hour, a.minute>>
        y == <<b.year, b.month, b.day, b.hour, b.minute>>
    IN  \E i \in 1..5 : x[i] < y[i] /\ \A j \in 1..(i - 1) : x[j] = y[j]

\* ArxivFetcher._parse_record: the fields the fetch and the pipeline read
ArxivParseRecord(record) ==
    [paper_id |-> record.id, source |-> "arxiv", title |-> "t",
     update_date |-> record.update_date, categories |-> record.categories]

InSeq(x, s) == \E i \in 1..Len(s) : s[i] = x

\* the start filter excluding the start date itself
ArxivBeforeStartStrict(paper, parsed_start_date) ==
    /\ parsed_start_date # NoneObj
    /\ ~DatetimeLt(parsed_start_date, FromIsoFormat(paper.update_date))

\* lines 60-63: the record is older than the start date
ArxivBeforeStart(paper, parsed_start_date) ==
    /\ parsed_start_date # NoneObj
    /\ DatetimeLt(FromIsoFormat(paper.update_date), parsed_start_date)

\* lines 64-67: the record is newer than the end date
ArxivAfterEnd(paper, parsed_end_date) ==
    /\ parsed_end_date # NoneObj
    /\ DatetimeLt(parsed_end_date, FromIsoFormat(paper.update_date))

\* lines 69-70: a category is asked for and the record does not have it
ArxivOtherCategory(paper, category) ==
    /\ category # None
    /\ ~InSeq(category, paper.categories)

ArxivFrame(start_date, end_date, category, limit) ==
    [kind |-> "arxiv", pc |-> "loop",
     start_date |-> start_date, end_date |-> end_date, category |-> category,
     limit |-> limit,
     parsed_start_date |->
        IF start_date # NoDate THEN FromIsoFormat(start_date) ELSE NoneObj,
     parsed_end_date |->
        IF end_date # NoDate THEN FromIsoFormat(end_date) ELSE NoneObj,
     count |-> 0, pos |-> 0]

\* one iteration of `for line in r`: the next line is parsed and filtered,
\* and the record that passes is yielded; the end of the file ends the fetch
ArxivLine ==
    /\ fx.kind = "arxiv" /\ fx.pc = "loop"
    /\ ConsumerWaits
    /\ IF fx.pos >= Len(served)
       THEN fx' = [fx EXCEPT !.pc = "done"] /\ UNCHANGED emitted
       ELSE LET line == served[fx.pos + 1]
                paper == ArxivParseRecord(line)
            IN  IF ~line.ok
                THEN /\ fx' = [fx EXCEPT !.pc = "raised", !.pos = fx.pos + 1]
                     /\ UNCHANGED emitted
                ELSE IF \/ ArxivBeforeStart(paper, fx.parsed_start_date)
                        \/ ArxivAfterEnd(paper, fx.parsed_end_date)
                        \/ ArxivOtherCategory(paper, fx.category)
                THEN /\ fx' = [fx EXCEPT !.pos = fx.pos + 1]
                     /\ UNCHANGED emitted
                ELSE /\ fx' = [fx EXCEPT !.pc = "yielded", !.pos = fx.pos + 1]
                     /\ emitted' = Append(emitted, paper)
    /\ UNCHANGED <<served, consumed, hashVars, retryVars, pipeVars, queryVars>>

\* the generator is resumed after its yield: count += 1; if count >= limit: break
ArxivResume ==
    /\ fx.kind = "arxiv" /\ fx.pc = "yielded"
    /\ ConsumerWaits
    /\ fx' = [fx EXCEPT !.count = fx.count + 1,
                        !.pc = IF fx.count + 1 >= fx.limit THEN "done" ELSE "loop"]
    /\ UNCHANGED <<served, emitted, consumed, hashVars, retryVars, pipeVars,
                   queryVars>>

(***************************************************************************)
(* SpecArxiv: fetch_papers over every file of the bounds, for every        *)
(* combination of start_date, end_date, category and limit.                *)
(***************************************************************************)
InitArxiv ==
    /\ served \in FilesUpTo(MaxFileLen)
    /\ \E s \in ArxivStartDates, e \in ArxivEndDates, c \in ArxivCategories,
          l \in 0..MaxLimit : fx = ArxivFrame(s, e, c, l)
    /\ emitted = <<>> /\ consumed = 0
    /\ HashIdle /\ RetryIdle /\ PipeIdle /\ QueryIdle

NextArxiv ==
    \/ ArxivLine
    \/ ArxivResume
    \/ Collect

SpecArxiv == InitArxiv /\ [][NextArxiv]_vars

\* a date string as the number YYYYMMDD
DateNum(d) == d[1] * 10000 + d[2] * 100 + d[3]

\* the record of a well-formed line is wanted: it is inside the date range
\* (both ends included) and carries the category, for each filter given
Wanted(line) ==
    /\ line.ok
    /\ fx.start_date # NoDate => DateNum(line.update_date) >= DateNum(fx.start_date)
    /\ fx.end_date # NoDate => DateNum(line.update_date) <= DateNum(fx.end_date)
    /\ fx.category # None =>
          \E i \in 1..Len(line.categories) : line.categories[i] = fx.category

WantedLines(lines) == SelectSeq(lines, Wanted)

IsPrefix(s, u) == Len(s) <= Len(u) /\ \A i \in 1..Len(s) : s[i] = u[i]

WellFormed(lines) == \A i \in 1..Len(lines) : lines[i].ok

\* C5: over a file of well-formed records the emitted sequence is, at every
\* moment, the wanted records among the lines read so far, in file order
\* (hence a prefix of the wanted records of the file), whatever start_date,
\* end_date and category are given; the count that is compared with limit
\* counts emitted records only.
C5_SnapshotFilter ==
    (fx.kind = "arxiv" /\ WellFormed(served)) =>
      /\ Len(emitted) = Len(WantedLines(SubSeq(served, 1, fx.pos)))
      /\ \A i \in 1..Len(emitted) :
            LET line == WantedLines(served)[i]
            IN  /\ emitted[i].paper_id = line.id
                /\ emitted[i].update_date = line.update_date
                /\ emitted[i].categories = line.categories
      /\ Len(emitted) <= Len(WantedLines(served))
      /\ fx.count = IF fx.pc = "yielded" THEN Len(emitted) - 1 ELSE Len(emitted)

\* the example of the claim: of the three records only the one of 2023-06-01
\* was emitted, at the end of the file
C5_Witness ==
    /\ fx.kind = "arxiv" /\ fx.pc = "done"
    /\ Len(served) = 3 /\ WellFormed(served)
    /\ served[1].update_date = <<2023, 1, 1>>
    /\ served[2].update_date = <<2023, 6, 1>>
    /\ served[3].update_date = <<2024, 1, 1>>
    /\ fx.start_date = <<2023, 3, 1>> /\ fx.end_date = <<2023, 12, 31>>
    /\ fx.pos = 3
    /\ Len(emitted) = 1 /\ emitted[1].update_date = <<2023, 6, 1>>

\* C6: the fetch never emits more than limit records; when it is over it
\* has emitted min(limit, wanted records of the file); and once limit
\* records are emitted the last line read is the one that produced the last
\* of them.
C6_SnapshotLimit ==
    (fx.kind = "arxiv" /\ WellFormed(served)) =>
      /\ Len(emitted) <= fx.limit
      /\ fx.pc = "done" =>
            Len(emitted) = Min(fx.limit, Len(WantedLines(served)))
      /\ Len(emitted) >= fx.limit =>
            fx.pos = 0 \/ Wanted(served[fx.pos])

(***************************************************************************)
(* fetchers.biorxiv.BiorxivFetcher: the cursor-paged fetch.                *)
(***************************************************************************)
MaxPages == 3

BioMaxRetries == 3

BioBackoffFactor == 2

\* PaperMetadata(...) raises a validation error when a str field is null
BioParseFails(record) ==
    \/ DictGet(record, "preprint_doi", DictGet(record, "doi", "")) = None
    \/ DictGet(record, "preprint_title", DictGet(record, "title", "")) = None
    \/ DictGet(record, "preprint_authors", DictGet(record, "authors", "")) = None
    \/ DictGet(record, "preprint_date", DictGet(record, "date", NoDate)) = None

\* BiorxivFetcher._parse_record
BioParseRecord(record, source) ==
    LET doi == DictGet(record, "preprint_doi", DictGet(record, "doi", ""))
        category ==
            DictGet(record, "preprint_category", DictGet(record, "category", ""))
    IN  [paper_id |-> doi, source |-> source,
         title |-> DictGet(record, "preprint_title", DictGet(record, "title", "")),
         abstract |-> NormalizeWs(
            DictGet(record, "preprint_abstract", DictGet(record, "abstract", <<>>))),
         authors |->
            DictGet(record, "preprint_authors", DictGet(record, "authors", "")),
         update_date |->
            DictGet(record, "preprint_date", DictGet(record, "date", NoDate)),
         categories |-> IF category # "" /\ category # None
                        THEN <<category>> ELSE <<>>]

\* the cursor message taken to be the first message, whatever its type
BioCursorMessageAny(messages) ==
    IF messages = <<>> THEN NoneObj ELSE messages[1]

\* next((m for m in messages if m.get("type") == "cursor_value"), None)
BioCursorMessage(messages) ==
    LET hits == { i \in 1..Len(messages) :
                    DictGet(messages[i], "type", None) = "cursor_value" }
    IN  IF hits = {} THEN NoneObj
        ELSE messages[CHOOSE i \in hits : \A j \in hits : i <= j]

\* the cursor left where it is
BioNextCursorStale(cursor_message) == 0

\* int(cursor_message.get("cursor", 0))
BioNextCursor(cursor_message) ==
    PyInt(DictGet(cursor_message, "cursor", [int |-> 0]))

BioFrame(server, start_date, end_date, category) ==
    [kind |-> "biorxiv", pc |-> "request", server |-> server,
     start_date |-> start_date, end_date |-> end_date, category |-> category,
     cursor |-> 0, reqs |-> <<>>, collection |-> <<>>, messages |-> <<>>,
     idx |-> 0, pauses |-> 0]

\* the top of `while True`: the page at the cursor is requested
BioRequest ==
    /\ fx.kind = "biorxiv" /\ fx.pc = "request"
    /\ ConsumerWaits
    /\ Len(fx.reqs) < MaxPages
    /\ fx' = [fx EXCEPT !.pc = "await",
                !.reqs = Append(fx.reqs,
                    [start_date |-> fx.start_date, end_date |-> fx.end_date,
                     cursor |-> fx.cursor, category |-> fx.category])]
    /\ rq' = RetryFrame(BioMaxRetries, BioBackoffFactor)
    /\ http' = <<>>
    /\ UNCHANGED <<served, emitted, consumed, hashVars, pipeVars, queryVars>>

\* retry_request is over: its error, or a body that is not JSON, is printed
\* and ends the loop; an empty or missing collection ends the loop; else the
\* page's items are to be emitted
BioResponse ==
    /\ fx.kind = "biorxiv" /\ fx.pc = "await"
    /\ rq.pc \in {"returned", "raised"}
    /\ IF rq.pc = "raised"
       THEN /\ fx' = [fx EXCEPT !.pc = "done"]
            /\ UNCHANGED served
       ELSE LET data == rq.response.body
                collection == DictGet(data, "collection", <<>>)
            IN  /\ served' = Append(served, data)
                /\ IF ~data.json \/ collection = <<>>
                   THEN fx' = [fx EXCEPT !.pc = "done"]
                   ELSE fx' = [fx EXCEPT !.pc = "emit",
                                  !.collection = collection,
                                  !.messages = DictGet(data, "messages", <<>>),
                                  !.idx = 1]
    /\ rq' = IdleRq
    /\ http' = <<>>
    /\ UNCHANGED <<emitted, consumed, hashVars, pipeVars, queryVars>>

\* `yield self._parse_record(paper, self.server)`
BioEmit ==
    /\ fx.kind = "biorxiv" /\ fx.pc = "emit"
    /\ ConsumerWaits
    /\ LET paper == fx.collection[fx.idx]
       IN  IF BioParseFails(paper)
           THEN fx' = [fx EXCEPT !.pc = "raised"] /\ UNCHANGED emitted
           ELSE /\ fx' = [fx EXCEPT !.pc = "yielded"]
                /\ emitted' = Append(emitted, BioParseRecord(paper, fx.server))
    /\ UNCHANGED <<served, consumed, hashVars, retryVars, pipeVars, queryVars>>

\* the generator is resumed: the next item of the page, or, after the last,
\* the scan of `messages` for the cursor; int() of a cursor that is no
\* number raises
BioResume ==
    /\ fx.kind = "biorxiv" /\ fx.pc = "yielded"
    /\ ConsumerWaits
    /\ IF fx.idx < Len(fx.collection)
       THEN fx' = [fx EXCEPT !.pc = "emit", !.idx = fx.idx + 1]
       ELSE LET cursor_message == BioCursorMessage(fx.messages)
            IN  IF cursor_message = NoneObj
                THEN fx' = [fx EXCEPT !.pc = "done"]
                ELSE IF PyIntFails(DictGet(cursor_message, "cursor", [int |-> 0]))
                THEN fx' = [fx EXCEPT !.pc = "raised"]
                ELSE fx' = [fx EXCEPT !.pc = "sleep",
                               !.cursor = BioNextCursor(cursor_message)]
    /\ UNCHANGED <<served, emitted, consumed, hashVars, retryVars, pipeVars,
                   queryVars>>

\* await asyncio.sleep(self.rate_limit_delay)
BioSleep ==
    /\ fx.kind = "biorxiv" /\ fx.pc = "sleep"
    /\ fx' = [fx EXCEPT !.pc = "request", !.pauses = fx.pauses + 1]
    /\ UNCHANGED <<served, emitted, consumed, hashVars, retryVars, pipeVars,
                   queryVars>>

(***************************************************************************)
(* SpecBiorxiv: one fetch of the cursor-paged fetcher against a server     *)
(* that answers every page request with any body, after any failures.      *)
(***************************************************************************)
InitBiorxiv ==
    /\ \E server \in {"biorxiv", "medrxiv"} :
          fx = BioFrame(server, <<2024, 1, 1>>, <<2024, 1, 2>>, None)
    /\ served = <<>> /\ emitted = <<>> /\ consumed = 0
    /\ HashIdle /\ RetryIdle /\ PipeIdle /\ QueryIdle

NextBiorxiv ==
    \/ BioRequest
    \/ RetryAttempt
    \/ RetrySleep
    \/ BioResponse
    \/ BioEmit
    \/ BioResume
    \/ BioSleep
    \/ Collect

SpecBiorxiv == InitBiorxiv /\ [][NextBiorxiv]_vars

\* the page has no entry of the cursor type in its messages
NoCursorEntry(page) ==
    \/ "messages" \notin DOMAIN page
    \/ \A i \in 1..Len(page.messages) :
          \/ "type" \notin DOMAIN page.messages[i]
          \/ page.messages[i].type # "cursor_value"

\* the page's collection is empty or missing
NoCollection(page) ==
    \/ "collection" \notin DOMAIN page
    \/ page.collection = <<>>

\* the normalized items of the pages, in the order the source gave them
RECURSIVE BioItemsOf(_, _)
BioItemsOf(pages, source) ==
    IF pages = <<>> THEN <<>>
    ELSE LET page == Head(pages)
             items == IF page.json /\ ~NoCollection(page)
                      THEN [i \in 1..Len(page.collection) |->
                               BioParseRecord(page.collection[i], source)]
                      ELSE <<>>
         IN  items \o BioItemsOf(Tail(pages), source)

\* C7: a page without a cursor entry, or with an empty or missing collection
\* (or a body that is not JSON), is the last page requested: every page
\* received before another has items and a cursor entry, and once such a
\* page is received no request is pending or issued.  A page with an empty
\* or missing collection ends the fetch at once with nothing emitted from
\* it; after a page with items and no cursor entry the fetch ends only when
\* all items of all pages, that page's included, have been emitted in
\* order (it ends otherwise only by raising on an item that does not
\* normalize).
C7_CursorTermination ==
    fx.kind = "biorxiv" =>
      LET n == Len(served)
          last == served[n]
      IN  /\ \A i \in 1..(n - 1) :
                /\ served[i].json
                /\ ~NoCollection(served[i])
                /\ ~NoCursorEntry(served[i])
          /\ Len(fx.reqs) \in {n, n + 1}
          /\ (n > 0 /\ (~last.json \/ NoCollection(last) \/ NoCursorEntry(last))) =>
                /\ Len(fx.reqs) = n
                /\ fx.pc \in {"emit", "yielded", "done", "raised"}
                /\ rq = IdleRq
          /\ (n > 0 /\ (~last.json \/ NoCollection(last))) =>
                /\ fx.pc = "done"
                /\ emitted = BioItemsOf(SubSeq(served, 1, n - 1), fx.server)
          /\ (n > 0 /\ last.json /\ ~NoCollection(last) /\ NoCursorEntry(last)) =>
                /\ fx.pc = "done" => emitted = BioItemsOf(served, fx.server)
                /\ IsPrefix(emitted, BioItemsOf(served, fx.server))
                /\ fx.pc = "raised" => fx.collection[fx.idx].title = None

\* the second page had two items and no cursor entry: the fetch is over
\* after two requests with the items of both pages emitted
C7_Witness ==
    /\ fx.kind = "biorxiv" /\ fx.pc = "done"
    /\ Len(served) = 2 /\ Len(fx.reqs) = 2
    /\ served[2].json /\ "collection" \in DOMAIN served[2]
    /\ Len(served[2].collection) = 2
    /\ NoCursorEntry(served[2])
    /\ Len(emitted) = Len(served[1].collection) + 2

(***************************************************************************)
(* fetchers.chemrxiv.ChemrxivFetcher: the offset-paged fetch.              *)
(***************************************************************************)
MaxChemLimit == 4

MaxPageSize == 2

ChemMaxRetries == 3

ChemBackoffFactor == 2

\* PaperMetadata(...) raises a validation error when a str field is null
ChemParseFails(record) ==
    LET item == DictGet(record, "item", record)
    IN  \/ DictGet(item, "doi", "") = None
        \/ DictGet(item, "title", "") = None
        \/ DictGet(item, "publishedDate", NoDate) = None

\* the names of the categories that have a non-empty name
RECURSIVE ChemCategoryNames(_)
ChemCategoryNames(cats) ==
    IF cats = <<>> THEN <<>>
    ELSE LET name == DictGet(Head(cats), "name", None)
         IN  (IF name # None /\ name # "" THEN <<name>> ELSE <<>>)
                \o ChemCategoryNames(Tail(cats))

\* ", ".join([a.get("name", "") for a in authors_list])
RECURSIVE ChemAuthorNames(_)
ChemAuthorNames(authors_list) ==
    IF authors_list = <<>> THEN <<>>
    ELSE <<DictGet(Head(authors_list), "name", "")>>
            \o (IF Tail(authors_list) = <<>> THEN <<>>
                ELSE <<", ">> \o ChemAuthorNames(Tail(authors_list)))

\* ChemrxivFetcher._parse_record
ChemParseRecord(record) ==
    LET item == DictGet(record, "item", record)
    IN  [paper_id |-> DictGet(item, "doi", ""), source |-> "chemrxiv",
         title |-> DictGet(item, "title", ""),
         abstract |-> NormalizeWs(
            DictGet(item, "description", DictGet(item, "abstract", <<>>))),
         authors |-> ChemAuthorNames(DictGet(item, "authors", <<>>)),
         update_date |-> DictGet(item, "publishedDate", NoDate),
         categories |-> ChemCategoryNames(DictGet(item, "categories", <<>>))]

\* the test of the last page never true
ChemShortPageNever(n, page_size) == FALSE

\* `if len(items) < page_size: break`
ChemShortPage(n, page_size) == n < page_size

\* the cursor advanced by the page size, whatever the page held
ChemAdvanceByPage(cursor, n, page_size) == cursor + page_size

\* cursor += len(items)
ChemAdvance(cursor, n, page_size) == cursor + n

ChemFrame(limit, page_size, search_term) ==
    [kind |-> "chemrxiv", pc |-> "loop", limit |-> limit,
     page_size |-> page_size, search_term |-> search_term,
     cursor |-> 0, reqs |-> <<>>, items |-> <<>>, idx |-> 0, pauses |-> 0]

\* `while cursor < limit` holds: the page at skip = cursor is requested
ChemRequest ==
    /\ fx.kind = "chemrxiv" /\ fx.pc = "loop"
    /\ ConsumerWaits
    /\ fx.cursor < fx.limit
    /\ fx' = [fx EXCEPT !.pc = "await",
                !.reqs = Append(fx.reqs,
                    [limit |-> Min(fx.page_size, fx.limit - fx.cursor),
                     skip |-> fx.cursor, term |-> fx.search_term])]
    /\ rq' = RetryFrame(ChemMaxRetries, ChemBackoffFactor)
    /\ http' = <<>>
    /\ UNCHANGED <<served, emitted, consumed, hashVars, pipeVars, queryVars>>

\* `while cursor < limit` fails: the fetch is over
ChemLoopExit ==
    /\ fx.kind = "chemrxiv" /\ fx.pc = "loop"
    /\ ConsumerWaits
    /\ ~(fx.cursor < fx.limit)
    /\ fx' = [fx EXCEPT !.pc = "done"]
    /\ UNCHANGED <<served, emitted, consumed, hashVars, retryVars, pipeVars,
                   queryVars>>

\* retry_request is over: its error, or a body that is not JSON, is printed
\* and ends the loop; empty or missing itemHits end the loop; else the
\* page's items are to be emitted
ChemResponse ==
    /\ fx.kind = "chemrxiv" /\ fx.pc = "await"
    /\ rq.pc \in {"returned", "raised"}
    /\ IF rq.pc = "raised"
       THEN /\ fx' = [fx EXCEPT !.pc = "done"]
            /\ UNCHANGED served
       ELSE LET data == rq.response.body
                items == DictGet(data, "itemHits", <<>>)
            IN  /\ served' = Append(served, data)
                /\ IF ~data.json \/ items = <<>>
                   THEN fx' = [fx EXCEPT !.pc = "done"]
                   ELSE fx' = [fx EXCEPT !.pc = "emit", !.items = items,
                                         !.idx = 1]
    /\ rq' = IdleRq
    /\ http' = <<>>
    /\ UNCHANGED <<emitted, consumed, hashVars, pipeVars, queryVars>>

\* `yield self._parse_record(item)`
ChemEmit ==
    /\ fx.kind = "chemrxiv" /\ fx.pc = "emit"
    /\ ConsumerWaits
    /\ LET item == fx.items[fx.idx]
       IN  IF ChemParseFails(item)
           THEN fx' = [fx EXCEPT !.pc = "raised"] /\ UNCHANGED emitted
           ELSE /\ fx' = [fx EXCEPT !.pc = "yielded"]
                /\ emitted' = Append(emitted, ChemParseRecord(item))
    /\ UNCHANGED <<served, consumed, hashVars, retryVars, pipeVars, queryVars>>

\* the generator is resumed: the next item of the page, or, after the last,
\* cursor += len(items) and the test of the short page
ChemResume ==
    /\ fx.kind = "chemrxiv" /\ fx.pc = "yielded"
    /\ ConsumerWaits
    /\ IF fx.idx < Len(fx.items)
       THEN fx' = [fx EXCEPT !.pc = "emit", !.idx = fx.idx + 1]
       ELSE fx' = [fx EXCEPT
                      !.cursor = ChemAdvance(fx.cursor, Len(fx.items), fx.page_size),
                      !.pc = IF ChemShortPage(Len(fx.items), fx.page_size)
                             THEN "done" ELSE "sleep"]
    /\ UNCHANGED <<served, emitted, consumed, hashVars, retryVars, pipeVars,
                   queryVars>>

\* await asyncio.sleep(self.rate_limit_delay)
ChemSleep ==
    /\ fx.kind = "chemrxiv" /\ fx.pc = "sleep"
    /\ fx' = [fx EXCEPT !.pc = "loop", !.pauses = fx.pauses + 1]
    /\ UNCHANGED <<served, emitted, consumed, hashVars, retryVars, pipeVars,
                   queryVars>>

(***************************************************************************)
(* SpecChemrxiv: one fetch of the offset-paged fetcher, for every limit    *)
(* and page_size of the bounds, against a server that answers every page   *)
(* request with any body, after any failures.                              *)
(***************************************************************************)
InitChemrxiv ==
    /\ \E limit \in 0..MaxChemLimit, page_size \in 0..MaxPageSize :
          fx = ChemFrame(limit, page_size, None)
    /\ served = <<>> /\ emitted = <<>> /\ consumed = 0
    /\ HashIdle /\ RetryIdle /\ PipeIdle /\ QueryIdle

NextChemrxiv ==
    \/ ChemRequest
    \/ ChemLoopExit
    \/ RetryAttempt
    \/ RetrySleep
    \/ ChemResponse
    \/ ChemEmit
    \/ ChemResume
    \/ ChemSleep
    \/ Collect

SpecChemrxiv == InitChemrxiv /\ [][NextChemrxiv]_vars

\* the number of hits of a page received
HitCount(page) ==
    IF page.json /\ "itemHits" \in DOMAIN page THEN Len(page.itemHits) ELSE 0

\* the hits of the page all normalize
HitsNormalize(page) ==
    \A i \in 1..HitCount(page) :
        LET hit == page.itemHits[i]
            item == IF "item" \in DOMAIN hit THEN hit.item ELSE hit
        IN  "title" \notin DOMAIN item \/ item.title # None

\* the pages received so far are those of the claim's source: every request
\* was answered, every page but the last has exactly page_size hits, the
\* last has fewer and at least one, and limit is at least their total
FullPagesThenShort ==
    LET n == Len(served)
    IN  /\ n > 0
        /\ Len(fx.reqs) = n
        /\ \A i \in 1..n : HitsNormalize(served[i])
        /\ \A i \in 1..(n - 1) : HitCount(served[i]) = fx.page_size
        /\ 1 <= HitCount(served[n]) /\ HitCount(served[n]) < fx.page_size
        /\ fx.limit >= SumSeq([i \in 1..n |-> HitCount(served[i])])

\* C8: against a source of full pages followed by a short page, with limit
\* at least the total, no request follows the short page: the fetch only
\* emits that page's items and ends, and at its end it has emitted the sum
\* of all page sizes.  Whatever the server does, for every limit >= 0, each
\* request's skip is greater than the one before, at most limit page
\* requests are issued, and a fetch that is not over can take a step.
C8_OffsetTermination ==
    fx.kind = "chemrxiv" =>
      /\ FullPagesThenShort =>
            /\ fx.pc \in {"emit", "yielded", "done"}
            /\ rq = IdleRq
            /\ Len(emitted) <= SumSeq([i \in 1..Len(served) |-> HitCount(served[i])])
            /\ fx.pc = "done" =>
                  Len(emitted) =
                      SumSeq([i \in 1..Len(served) |-> HitCount(served[i])])
      /\ \A i \in 1..(Len(fx.reqs) - 1) :
            fx.reqs[i + 1].skip >= fx.reqs[i].skip + 1
      /\ \A i \in 1..Len(fx.reqs) : fx.reqs[i].skip < fx.limit
      /\ Len(fx.reqs) <= fx.limit
      /\ fx.pc \in {"done", "raised"} \/ ENABLED NextChemrxiv

\* a full page of two and a short page of one were received, and the fetch
\* is over after two requests with three records emitted
C8_Witness ==
    /\ fx.kind = "chemrxiv" /\ fx.pc = "done"
    /\ FullPagesThenShort
    /\ Len(served) = 2 /\ fx.page_size = 2
    /\ Len(fx.reqs) = 2 /\ Len(emitted) = 3

(***************************************************************************)
(* query.query: the filter built from the arguments and the one search.    *)
(* An optional string is None, "" or a value; an optional list or date is  *)
(* the empty tuple (None and the empty value alike are false) or a value.  *)
(***************************************************************************)
MaxQueryLimit == 2

\* the truth value Python gives a string or None, and a list or None
TruthyStr(x) == x # None /\ x # ""

TruthySeq(x) == x # <<>>

QueryArgs ==
    [pc : {"called"},
     paper_id : {None, "", "0704.0001"},
     source : {None, "arxiv"},
     authors : {None, "Smith"},
     title : {None, "graph"},
     abstract : {None, "quantum"},
     min_update_date : {NoDate, <<2024, 1, 1>>},
     max_update_date : {NoDate, <<2024, 6, 30>>},
     categories : {<<>>, <<"cs.AI">>},
     limit : 1..MaxQueryLimit,
     arxiv_id : {None, "0704.0002"},
     arxiv_categories : {<<>>, <<"math.CO">>}]

\* lines 57-61: the bounds of the DatetimeRange
RangeParams(min_update_date, max_update_date) ==
    IF TruthySeq(min_update_date) /\ TruthySeq(max_update_date)
    THEN [gte |-> min_update_date, lte |-> max_update_date]
    ELSE IF TruthySeq(min_update_date) THEN [gte |-> min_update_date]
    ELSE [lte |-> max_update_date]

\* the conditions joined by `should`: any of them, not all
QueryFilterShould(must_conditions) ==
    IF must_conditions # <<>> THEN [should |-> must_conditions] ELSE NoneObj

\* line 69: Filter(must=must_conditions) if must_conditions else None
QueryFilter(must_conditions) ==
    IF must_conditions # <<>> THEN [must |-> must_conditions] ELSE NoneObj

\* lines 34-67: must_conditions of the arguments a
MustConditions(a) ==
    LET paper_id == IF TruthyStr(a.arxiv_id) THEN a.arxiv_id ELSE a.paper_id
        categories == IF TruthySeq(a.arxiv_categories)
                      THEN a.arxiv_categories ELSE a.categories
    IN  (IF TruthyStr(paper_id)
         THEN <<[key |-> "paper_id", match |-> [value |-> paper_id]]>>
         ELSE <<>>)
        \o (IF TruthyStr(a.source)
            THEN <<[key |-> "source", match |-> [value |-> a.source]]>>
            ELSE <<>>)
        \o (IF TruthyStr(a.authors)
            THEN <<[key |-> "authors", match |-> [text |-> a.authors]]>>
            ELSE <<>>)
        \o (IF TruthyStr(a.title)
            THEN <<[key |-> "title", match |-> [text |-> a.title]]>>
            ELSE <<>>)
        \o (IF TruthyStr(a.abstract)
            THEN <<[key |-> "abstract", match |-> [text |-> a.abstract]]>>
            ELSE <<>>)
        \o (IF TruthySeq(a.min_update_date) \/ TruthySeq(a.max_update_date)
            THEN <<[key |-> "update_date",
                    range |-> RangeParams(a.min_update_date, a.max_update_date)]>>
            ELSE <<>>)
        \o (IF TruthySeq(categories)
            THEN <<[key |-> "categories", match |-> [any |-> categories]]>>
            ELSE <<>>)

\* the call of query(): the filter is built and client.query_points is
\* called once
Query ==
    /\ qin.pc = "called"
    /\ searches' = Append(searches,
          [collection_name |-> "papers",
           query_filter |-> QueryFilter(MustConditions(qin)),
           limit |-> qin.limit])
    /\ qin' = [qin EXCEPT !.pc = "done"]
    /\ UNCHANGED <<hashVars, retryVars, fetchVars, pipeVars>>

(***************************************************************************)
(* SpecQuery: one call of query() for every combination of its arguments.  *)
(***************************************************************************)
InitQuery ==
    /\ qin \in QueryArgs
    /\ searches = <<>>
    /\ HashIdle /\ RetryIdle /\ FetchIdle /\ PipeIdle

NextQuery == Query

SpecQuery == InitQuery /\ [][NextQuery]_vars

\* stored records to try a filter on: one that meets every constraint of
\* the model's arguments, and for each constraint one that fails only it
ProbeBase ==
    [paper_id |-> "0704.0001", source |-> "arxiv", authors |-> {"Smith", "Lee"},
     title |-> {"graph", "theory"}, abstract |-> {"quantum", "walks"},
     update_date |-> <<2024, 3, 1>>, categories |-> {"cs.AI", "math.CO"}]

Probes ==
    { ProbeBase,
      [ProbeBase EXCEPT !.paper_id = "0704.0002"],
      [ProbeBase EXCEPT !.paper_id = "0704.0003"],
      [ProbeBase EXCEPT !.source = "biorxiv"],
      [ProbeBase EXCEPT !.authors = {"Lee"}],
      [ProbeBase EXCEPT !.title = {"theory"}],
      [ProbeBase EXCEPT !.abstract = {"walks"}],
      [ProbeBase EXCEPT !.update_date = <<2023, 12, 31>>],
      [ProbeBase EXCEPT !.update_date = <<2024, 7, 1>>],
      [ProbeBase EXCEPT !.categories = {"math.CO"}],
      [ProbeBase EXCEPT !.categories = {"cs.AI"}],
      [ProbeBase EXCEPT !.categories = {"q-bio"}] }

\* the store's reading of one field condition
CondMatches(cond, rec) ==
    IF "range" \in DOMAIN cond
    THEN /\ "gte" \in DOMAIN cond.range =>
               DateNum(rec[cond.key]) >= DateNum(cond.range.gte)
         /\ "lte" \in DOMAIN cond.range =>
               DateNum(rec[cond.key]) <= DateNum(cond.range.lte)
    ELSE IF "value" \in DOMAIN cond.match THEN rec[cond.key] = cond.match.value
    ELSE IF "text" \in DOMAIN cond.match THEN cond.match.text \in rec[cond.key]
    ELSE \E i \in 1..Len(cond.match.any) : cond.match.any[i] \in rec[cond.key]

\* the store's reading of a filter: every `must`, and some `should`
FilterMatches(filter, rec) ==
    /\ "must" \in DOMAIN filter =>
          \A i \in 1..Len(filter.must) : CondMatches(filter.must[i], rec)
    /\ "should" \in DOMAIN filter =>
          \E i \in 1..Len(filter.should) : CondMatches(filter.should[i], rec)

FilterConds(filter) ==
    DictGet(filter, "must", <<>>) \o DictGet(filter, "should", <<>>)

FilterKeys(filter) ==
    { FilterConds(filter)[i].key : i \in 1..Len(FilterConds(filter)) }

\* the constraints of a call, given the paper_id and the categories that
\* count: name -> whether it is supplied, and whether a record meets it
Supplied(a, paper_id, categories) ==
    [paper_id |-> TruthyStr(paper_id), source |-> TruthyStr(a.source),
     authors |-> TruthyStr(a.authors), title |-> TruthyStr(a.title),
     abstract |-> TruthyStr(a.abstract),
     min_update_date |-> TruthySeq(a.min_update_date),
     max_update_date |-> TruthySeq(a.max_update_date),
     categories |-> TruthySeq(categories)]

Meets(a, paper_id, categories, rec) ==
    [paper_id |-> rec.paper_id = paper_id, source |-> rec.source = a.source,
     authors |-> a.authors \in rec.authors, title |-> a.title \in rec.title,
     abstract |-> a.abstract \in rec.abstract,
     min_update_date |->
        a.min_update_date # <<>> /\ DateNum(rec.update_date) >= DateNum(a.min_update_date),
     max_update_date |->
        a.max_update_date # <<>> /\ DateNum(rec.update_date) <= DateNum(a.max_update_date),
     categories |-> \E i \in 1..Len(categories) : categories[i] \in rec.categories]

\* the field a constraint bears on
FieldOf(c) ==
    IF c \in {"min_update_date", "max_update_date"} THEN "update_date" ELSE c

\* the search sent is the conjunction of exactly the supplied constraints
Conjunction(a, paper_id, categories) ==
    LET sup == Supplied(a, paper_id, categories)
        filter == searches[1].query_filter
    IN  /\ Len(searches) = 1
        /\ searches[1].limit = a.limit
        /\ filter = NoneObj <=> \A c \in DOMAIN sup : ~sup[c]
        /\ FilterKeys(filter) = { FieldOf(c) : c \in { d \in DOMAIN sup : sup[d] } }
        /\ filter # NoneObj =>
              /\ Len(FilterConds(filter)) = Cardinality(FilterKeys(filter))
              /\ \A rec \in Probes :
                    FilterMatches(filter, rec) <=>
                      \A c \in DOMAIN sup :
                          sup[c] => Meets(a, paper_id, categories, rec)[c]

\* C9 as stated: the filter is the AND of a condition for each constraint
\* the caller supplied among paper_id, source, authors, title, abstract,
\* min_update_date, max_update_date and categories, and has no condition
\* for an omitted one; no filter when none is supplied; one search call
\* with the given limit.
C9_Original ==
    qin.pc = "done" => Conjunction(qin, qin.paper_id, qin.categories)

\* C9 amended: a constraint is supplied when its argument is non-empty;
\* a non-empty arxiv_id stands in for paper_id and a non-empty
\* arxiv_categories for categories, whatever paper_id and categories are.
\* With that, the filter is the AND of a condition for each supplied
\* constraint and no other, no filter when none is supplied, in one search
\* call with the given limit.
C9_QueryConjunction ==
    qin.pc = "done" =>
        Conjunction(qin,
            IF TruthyStr(qin.arxiv_id) THEN qin.arxiv_id ELSE qin.paper_id,
            IF TruthySeq(qin.arxiv_categories) THEN qin.arxiv_categories
            ELSE qin.categories)

\* the example of the claim: authors and min_update_date alone were given,
\* and the one filter sent has the two conditions
C9_Witness ==
    /\ qin.pc = "done"
    /\ qin.authors = "Smith" /\ qin.min_update_date = <<2024, 1, 1>>
    /\ ~TruthyStr(qin.paper_id) /\ ~TruthyStr(qin.arxiv_id)
    /\ ~TruthyStr(qin.source) /\ ~TruthyStr(qin.title)
    /\ ~TruthyStr(qin.abstract) /\ qin.max_update_date = NoDate
    /\ qin.categories = <<>> /\ qin.arxiv_categories = <<>>
    /\ Len(searches) = 1
    /\ Len(searches[1].query_filter.must) = 2

(***************************************************************************)
(* index._upsert_chunk and the loop of _process_arxiv,                     *)
(* _process_biorxiv_medrxiv and _process_chemrxiv (the three loops are the *)
(* same text).  The fetcher is the stream R of the records it yields; the  *)
(* store is the set of the collection's points.                            *)
(***************************************************************************)
CHUNK_SIZE == 100

MaxFetch == 250

MaxRefetch == 105

NumShapes == 3

\* the paper ids of the streams
KeySeq == <<"s1", "s2", "0704.0001", "", "0704.0002">>

\* the record a stream of the given shape yields at position i: the ids
\* recur with a period of 1 to 5, the titles change every n records
StreamRecord(shape, i) ==
    LET period == ((shape - 1) % Len(KeySeq)) + 1
        run_len == IF shape % 2 = 0 THEN CHUNK_SIZE ELSE shape
    IN  [paper_id |-> KeySeq[((i - 1) % period) + 1], source |-> "arxiv",
         title |-> IF ((i - 1) \div run_len) % 2 = 0 THEN "t1" ELSE "t2"]

\* embedder.encode_documents: one vector per record, from title and abstract
EncodeDocuments(chunk) == [i \in 1..Len(chunk) |-> <<"vector", chunk[i].title>>]

\* the points numbered serially instead of by the hash of paper_id
PointsOfSerial(chunk) ==
    LET embeddings == EncodeDocuments(chunk)
    IN  [i \in 1..Len(chunk) |->
            [id |-> <<0, 0, Cardinality(store), i>>,
             vector |-> embeddings[i], payload |-> chunk[i]]]

\* the records without a paper_id left out of the batch
PointsOfSkipEmpty(chunk) ==
    LET kept == SelectSeq(chunk, LAMBDA paper : paper.paper_id # "")
        embeddings == EncodeDocuments(kept)
    IN  [i \in 1..Len(kept) |->
            [id |-> get_point_id(kept[i].paper_id),
             vector |-> embeddings[i], payload |-> kept[i]]]

\* lines 32-39: the PointStruct of every record of the chunk
PointsOf(chunk) ==
    LET embeddings == EncodeDocuments(chunk)
    IN  [i \in 1..Len(chunk) |->
            [id |-> get_point_id(chunk[i].paper_id),
             vector |-> embeddings[i], payload |-> chunk[i]]]

\* client.upsert: each point in turn replaces the point of its id, so of the
\* points of one id the last one stays
Upsert(points_in_store, points) ==
    LET new_ids == { points[i].id : i \in 1..Len(points) }
        LastOf(id) ==
            LET at == { i \in 1..Len(points) : points[i].id = id }
            IN  points[CHOOSE i \in at : \A j \in at : j <= i]
    IN  { x \in points_in_store : x.id \notin new_ids }
            \cup { LastOf(id) : id \in new_ids }

\* the flush test with > for >=
ChunkFullStrict(chunk) == Len(chunk) > CHUNK_SIZE

\* no flush inside the loop
ChunkFullNever(chunk) == FALSE

\* `if len(chunk) >= CHUNK_SIZE`
ChunkFull(chunk) == Len(chunk) >= CHUNK_SIZE

\* what a call of _upsert_chunk may come to: both calls succeed, or
\* encode_documents raises, or upsert raises with nothing written, or upsert
\* raises after the store has written the batch (the answer was lost)
FlushOutcomes == {"ok", "embed", "upsert", "late"}

\* _upsert_chunk(client, embedder, chunk) with the given outcome: the calls
\* it adds, and the store after it
CallsOfFlush(chunk, outcome) ==
    IF chunk = <<>> THEN <<>>
    ELSE IF outcome = "embed" THEN <<[op |-> "embed", ok |-> FALSE, batch |-> chunk]>>
    ELSE <<[op |-> "embed", ok |-> TRUE, batch |-> chunk],
           [op |-> "upsert", ok |-> outcome = "ok", batch |-> chunk]>>

\* a failed upsert that has written the first point of the batch only
StoreOfFlushPartial(chunk, outcome) ==
    IF chunk = <<>> \/ outcome = "embed" THEN store
    ELSE IF outcome = "upsert" THEN Upsert(store, <<PointsOf(chunk)[1]>>)
    ELSE Upsert(store, PointsOf(chunk))

StoreOfFlush(chunk, outcome) ==
    IF chunk = <<>> \/ outcome \notin {"ok", "late"} THEN store
    ELSE Upsert(store, PointsOf(chunk))

\* the stream has a next record: in the first run any record of the shape,
\* up to the bound; in a second run the records of the first
\* under index() the stream is the running fetcher: its next record is the
\* one it has yielded and the loop has not taken yet
HasNext ==
    IF fx.kind # "none" THEN consumed < Len(emitted)
    ELSE IF pl.run = 1 THEN pl.pos < pl.max_fetch ELSE pl.pos < Len(R)

NextRecord ==
    IF fx.kind # "none" THEN emitted[consumed + 1]
    ELSE IF pl.run = 1 THEN StreamRecord(pl.shape, pl.pos + 1) ELSE R[pl.pos + 1]

\* the stream is exhausted: the fetcher has returned; a stream without a
\* fetcher may end after any record, the records of a second run end with R
StreamEnded ==
    IF fx.kind # "none" THEN fx.pc = "done" /\ consumed = Len(emitted)
    ELSE pl.run = 2 => pl.pos >= Len(R)

\* `if chunk:` the rest of the records goes to _upsert_chunk
TrailingChunkDropped(chunk) == <<>>

TrailingChunk(chunk) == chunk

PipeFrame(shape, max_fetch) ==
    [pc |-> "loop", run |-> 1, shape |-> shape, max_fetch |-> max_fetch,
     pos |-> 0, chunk |-> <<>>]

\* one iteration of `for paper in fetcher.fetch_papers(...)`: the record is
\* appended to the chunk, and a full chunk is embedded, upserted and cleared
ProcessYield ==
    /\ pl.pc = "loop"
    /\ HasNext
    /\ LET chunk == Append(pl.chunk, NextRecord)
       IN  /\ R' = IF pl.run = 1 THEN Append(R, NextRecord) ELSE R
           /\ IF ChunkFull(chunk)
              THEN \E outcome \in FlushOutcomes :
                      /\ calls' = calls \o CallsOfFlush(chunk, outcome)
                      /\ store' = StoreOfFlush(chunk, outcome)
                      /\ pl' = IF outcome = "ok"
                               THEN [pl EXCEPT !.chunk = <<>>, !.pos = pl.pos + 1]
                               ELSE [pl EXCEPT !.chunk = chunk, !.pos = pl.pos + 1,
                                               !.pc = "failed"]
              ELSE /\ pl' = [pl EXCEPT !.chunk = chunk, !.pos = pl.pos + 1]
                   /\ UNCHANGED <<calls, store>>
    /\ consumed' = IF fx.kind # "none" THEN consumed + 1 ELSE consumed
    /\ UNCHANGED <<store1, other, ix, coll, fx, served, emitted, hashVars, retryVars,
                   queryVars>>

\* the fetcher is exhausted: `if chunk:` the rest is embedded and upserted
ProcessEnd ==
    /\ pl.pc = "loop"
    /\ StreamEnded
    /\ LET chunk == TrailingChunk(pl.chunk)
       IN  \E outcome \in (IF chunk = <<>> THEN {"ok"} ELSE FlushOutcomes) :
              /\ calls' = calls \o CallsOfFlush(chunk, outcome)
              /\ store' = StoreOfFlush(chunk, outcome)
              /\ pl' = IF outcome = "ok"
                       THEN [pl EXCEPT !.chunk = <<>>, !.pc = "done"]
                       ELSE [pl EXCEPT !.pc = "failed"]
    /\ UNCHANGED <<R, store1, other, ix, coll, hashVars, retryVars, fetchVars, queryVars>>

\* the pipeline is run again over the same fetched records
ProcessAgain ==
    /\ pl.pc = "done" /\ pl.run = 1
    /\ pl' = [pl EXCEPT !.pc = "loop", !.run = 2, !.pos = 0, !.chunk = <<>>]
    /\ calls' = <<>>
    /\ store1' = store
    /\ UNCHANGED <<R, store, ix, coll, other, hashVars, retryVars, fetchVars,
                   queryVars>>

\* the hash tables of the pipeline's runs: "s1" hashes to 2^63 - 1 (id 0),
\* "s2" to 0 (id 0 as well, a collision) or to 2^63 (id 1)
PipeMd5Tables ==
    { m \in Md5Tables :
        /\ m["s1"] = <<7>> \o Rep(15, 15)
        /\ m["s2"] \in {Rep(0, 16), <<8>> \o Rep(0, 15)} }

\* the stores a run may find: empty, or holding an older version of a paper
\* of the stream and a paper that is not in it
OldPoints(m) ==
    { [id |-> U64Mod(IntHex16(m["0704.0001"]), Modulus),
       vector |-> <<"vector", "t0">>,
       payload |-> [paper_id |-> "0704.0001", source |-> "arxiv", title |-> "t0"]],
      [id |-> <<0, 0, 0, 7>>, vector |-> <<"vector", "t9">>,
       payload |-> [paper_id |-> "0704.0009", source |-> "arxiv", title |-> "t9"]] }

\* the payload indexes without the one on categories
PayloadIndexesNoCategories ==
    << [field_name |-> "paper_id", field_schema |-> "keyword"],
       [field_name |-> "source", field_schema |-> "keyword"],
       [field_name |-> "authors", field_schema |-> "text"],
       [field_name |-> "title", field_schema |-> "text"],
       [field_name |-> "abstract", field_schema |-> "text"],
       [field_name |-> "update_date", field_schema |-> "datetime"] >>

\* the create_payload_index calls of _ensure_collection, in order
PayloadIndexes ==
    << [field_name |-> "paper_id", field_schema |-> "keyword"],
       [field_name |-> "source", field_schema |-> "keyword"],
       [field_name |-> "authors", field_schema |-> "text"],
       [field_name |-> "title", field_schema |-> "text"],
       [field_name |-> "abstract", field_schema |-> "text"],
       [field_name |-> "update_date", field_schema |-> "datetime"],
       [field_name |-> "categories", field_schema |-> "keyword"] >>

\* VectorParams(size=embedder.dim, distance=Distance.COSINE)
VectorsConfig == [size |-> "embedder.dim", distance |-> "Cosine"]

\* the collection as a complete _ensure_collection leaves it
CreatedCollection ==
    [exists |-> TRUE, vectors |-> VectorsConfig, indexes |-> PayloadIndexes]

InitPipe(max_fetch) ==
    /\ md5tab \in PipeMd5Tables
    /\ ids = <<>>
    /\ \E shape \in 1..NumShapes : pl = PipeFrame(shape, max_fetch)
    /\ R = <<>> /\ calls = <<>>
    /\ store \in {{}, OldPoints(md5tab)}
    /\ store1 = {}
    /\ ix = IdleIx /\ coll = CreatedCollection /\ other = NoneObj
    /\ RetryIdle /\ FetchIdle /\ QueryIdle

(***************************************************************************)
(* SpecPipeline: one run of the pipeline over every stream of up to        *)
(* MaxFetch records.  SpecIngestTwice: a run over a stream of up to        *)
(* MaxRefetch records, and a second run over the same records.             *)
(***************************************************************************)
InitPipeline == InitPipe(MaxFetch)

NextPipeline ==
    \/ ProcessYield
    \/ ProcessEnd

SpecPipeline == InitPipeline /\ [][NextPipeline]_vars

InitIngestTwice == InitPipe(MaxRefetch)

NextIngestTwice ==
    \/ ProcessYield
    \/ ProcessEnd
    \/ ProcessAgain

SpecIngestTwice == InitIngestTwice /\ [][NextIngestTwice]_vars

\* the upsert calls of the run, in call order, and their sizes
UpsertCalls == SelectSeq(calls, LAMBDA c : c.op = "upsert")

BatchSizes == [k \in 1..Len(UpsertCalls) |-> Len(UpsertCalls[k].batch)]

RECURSIVE Flatten(_)
Flatten(batches) ==
    IF batches = <<>> THEN <<>> ELSE Head(batches).batch \o Flatten(Tail(batches))

CeilDiv(n, d) == (n + d - 1) \div d

\* C1: when a run over the N records of a stream ends and no embed or upsert
\* call has failed, there were ceil(N / CHUNK_SIZE) upsert calls, each right
\* after one embed call on the same batch; every upsert but the last carries
\* CHUNK_SIZE records, the last carries N mod CHUNK_SIZE when that is not
\* zero, none is empty, and the batches in call order concatenate to the
\* stream; for CHUNK_SIZE = 100 and N = 250 the sizes are 100, 100, 50.
C1_BatchFlushBoundary ==
    pl.pc = "done" =>
        LET N == Len(R)
            u == UpsertCalls
        IN  /\ Len(u) = CeilDiv(N, CHUNK_SIZE)
            /\ Len(calls) = 2 * Len(u)
            /\ \A k \in 1..Len(u) :
                  /\ calls[2 * k - 1].op = "embed" /\ calls[2 * k - 1].ok
                  /\ calls[2 * k] = u[k] /\ u[k].ok
                  /\ calls[2 * k - 1].batch = u[k].batch
                  /\ u[k].batch # <<>>
                  /\ k < Len(u) => Len(u[k].batch) = CHUNK_SIZE
            /\ N % CHUNK_SIZE # 0 => Len(u[Len(u)].batch) = N % CHUNK_SIZE
            /\ Flatten(u) = R
            /\ (CHUNK_SIZE = 100 /\ N = 250) => BatchSizes = <<100, 100, 50>>

\* a run over 250 records has ended with upserts of 100, 100 and 50 records
C1_Witness ==
    /\ pl.pc = "done" /\ pl.run = 1
    /\ Len(R) = 250
    /\ BatchSizes = <<100, 100, 50>>
    /\ \E i, j \in 1..Len(R) : R[i] # R[j]

\* the ids and payloads of a store
IdsOf(points) == { x.id : x \in points }

PayloadsOf(points) == { [id |-> x.id, payload |-> x.payload] : x \in points }

\* C2: when the pipeline has run over the records R from any initial store
\* and has then run over R a second time, the store holds the same point ids
\* with the same payload per id as after the first run; at no moment of the
\* second run does the store hold an id it did not hold after the first.
C2_IdempotentIngestion ==
    pl.run = 2 =>
        /\ IdsOf(store) = IdsOf(store1)
        /\ pl.pc = "done" => PayloadsOf(store) = PayloadsOf(store1)

\* a second run over more than one chunk of records, onto a store that held
\* older points before the first run, has ended; the records repeat paper ids
\* with differing payloads, and two paper ids of them share a point id
C2_Witness ==
    /\ pl.run = 2 /\ pl.pc = "done"
    /\ Len(R) > CHUNK_SIZE
    /\ Len(calls) = 4
    /\ \E x \in store : x.payload.paper_id = "0704.0009"
    /\ \E i, j \in 1..Len(R) : R[i].paper_id = R[j].paper_id /\ R[i] # R[j]
    /\ \E i, j \in 1..Len(R) :
          /\ R[i].paper_id # R[j].paper_id
          /\ get_point_id(R[i].paper_id) = get_point_id(R[j].paper_id)

(***************************************************************************)
(* _parse_record of the two paginated fetchers, as a function of the raw   *)
(* record.  SpecNormalize: one call on every record that carries any       *)
(* subset of the prefixed and unprefixed fields of the five attributes.    *)
(***************************************************************************)
Attributes == {"title", "abstract", "authors", "date", "category"}

PrefixedKey ==
    [title |-> "preprint_title", abstract |-> "preprint_abstract",
     authors |-> "preprint_authors", date |-> "preprint_date",
     category |-> "preprint_category"]

RawKeys == Attributes \cup { PrefixedKey[a] : a \in Attributes }

\* the value a raw record of the fetcher carries under a key; the authors of
\* a chemrxiv item are a list of objects, those of a biorxiv entry a string
RawValue(fetcher, key) ==
    CASE key = "title" -> "T"
      [] key = "preprint_title" -> "PT"
      [] key = "abstract" -> <<"a", " ", "\n", "b", " ">>
      [] key = "preprint_abstract" -> <<"\t", "p", " ", "q">>
      [] key = "authors" ->
            IF fetcher = "chemrxiv" THEN <<[name |-> "A"], [name |-> "B"]>> ELSE "A"
      [] key = "preprint_authors" ->
            IF fetcher = "chemrxiv" THEN <<[name |-> "PA"]>> ELSE "PA"
      [] key = "date" -> <<2024, 1, 1>>
      [] key = "preprint_date" -> <<2024, 1, 2>>
      [] key = "category" -> "biology"
      [] key = "preprint_category" -> "physics"

RawRecords(fetcher) ==
    { [k \in keys |-> RawValue(fetcher, k)] : keys \in SUBSET RawKeys }
        \cup {IF fetcher = "chemrxiv" THEN ChemItemBad ELSE BioItemBad}

NormalizeFrame(fetcher, record) ==
    [kind |-> "normalize", pc |-> "call", fetcher |-> fetcher, record |-> record]

\* self._parse_record(record): the PaperMetadata, or the validation error
Normalize ==
    /\ fx.kind = "normalize" /\ fx.pc = "call"
    /\ LET fails == IF fx.fetcher = "chemrxiv" THEN ChemParseFails(fx.record)
                    ELSE BioParseFails(fx.record)
       IN  IF fails
           THEN fx' = [fx EXCEPT !.pc = "raised"] /\ UNCHANGED emitted
           ELSE /\ fx' = [fx EXCEPT !.pc = "returned"]
                /\ emitted' = <<IF fx.fetcher = "chemrxiv"
                                THEN ChemParseRecord(fx.record)
                                ELSE BioParseRecord(fx.record, fx.fetcher)>>
    /\ UNCHANGED <<served, consumed, hashVars, retryVars, pipeVars, queryVars>>

InitNormalize ==
    /\ \E fetcher \in {"biorxiv", "medrxiv", "chemrxiv"} :
          \E record \in RawRecords(fetcher) : fx = NormalizeFrame(fetcher, record)
    /\ served = <<>> /\ emitted = <<>> /\ consumed = 0
    /\ HashIdle /\ RetryIdle /\ PipeIdle /\ QueryIdle

NextNormalize == Normalize

SpecNormalize == InitNormalize /\ [][NextNormalize]_vars

\* the value the rule gives an attribute: the prefixed field's when the
\* record carries it, else the unprefixed field's, else the empty value
Preferred(record, attribute, empty) ==
    IF PrefixedKey[attribute] \in DOMAIN record THEN record[PrefixedKey[attribute]]
    ELSE IF attribute \in DOMAIN record THEN record[attribute]
    ELSE empty

\* the normalized record the rule gives: the abstract with its whitespace
\* collapsed, the authors of a chemrxiv item joined, the category as a list
RuleRecord(fetcher, record) ==
    LET category == Preferred(record, "category", "")
        authors == Preferred(record, "authors",
                             IF fetcher = "chemrxiv" THEN <<>> ELSE "")
    IN  [title |-> Preferred(record, "title", ""),
         abstract |-> NormalizeWs(Preferred(record, "abstract", <<>>)),
         authors |-> IF fetcher = "chemrxiv" THEN ChemAuthorNames(authors)
                     ELSE authors,
         update_date |-> Preferred(record, "date", NoDate),
         categories |-> IF category = "" THEN <<>> ELSE <<category>>]

Attributed(paper) ==
    [title |-> paper.title, abstract |-> paper.abstract,
     authors |-> paper.authors, update_date |-> paper.update_date,
     categories |-> paper.categories]

\* C20: for title, abstract, authors, date and category, _parse_record of
\* both paginated fetchers gives the value of the "preprint_" field when the
\* record carries it, else that of the unprefixed field, else the empty
\* value; and it does not fail on a record that carries none of the fields.
C20_SharedNormalization ==
    fx.kind = "normalize" =>
        /\ fx.pc = "returned" =>
              Attributed(emitted[1]) = RuleRecord(fx.fetcher, fx.record)
        /\ fx.pc = "raised" => DOMAIN fx.record \cap RawKeys # {}


\* the cursor entry of a page received: its first message of the cursor type
CursorEntry(page) ==
    LET at == { i \in 1..Len(page.messages) :
                  "type" \in DOMAIN page.messages[i]
                      /\ page.messages[i].type = "cursor_value" }
    IN  page.messages[CHOOSE i \in at : \A j \in at : i <= j]

\* the number a cursor entry carries
CursorCarried(entry) ==
    IF "int" \in DOMAIN entry.cursor THEN entry.cursor.int
    ELSE DecimalValue(entry.cursor.str)

\* C17: in one cursor-paged fetch a page request is in flight only while the
\* fetcher awaits it, so requests follow one another; the first request has
\* cursor 0 and every later request the cursor carried by the cursor entry
\* of the response just before it; when request k+1 is issued all items of
\* pages 1..k have been emitted in the order given (and at every moment the
\* records emitted are a prefix of the items received); and one
\* rate_limit_delay pause lies between every two consecutive requests: k
\* requests in, k - 1 pauses were taken, and the k-th is taken before
\* request k + 1.
C17_PageSequencing ==
    fx.kind = "biorxiv" =>
      LET n == Len(served)
          k == Len(fx.reqs)
      IN  /\ rq # IdleRq => fx.pc = "await"
          /\ fx.pc = "await" => k = n + 1
          /\ k = n + 1 => fx.pc \in {"await", "done"}
          /\ k \in {n, n + 1}
          /\ k >= 1 => fx.reqs[1].cursor = 0
          /\ \A i \in 1..(k - 1) :
                /\ ~NoCursorEntry(served[i])
                /\ "cursor" \in DOMAIN CursorEntry(served[i]) =>
                      fx.reqs[i + 1].cursor = CursorCarried(CursorEntry(served[i]))
          /\ IsPrefix(emitted, BioItemsOf(served, fx.server))
          /\ fx.pc = "await" => emitted = BioItemsOf(served, fx.server)
          /\ fx.pc = "await" => fx.pauses = k - 1
          /\ fx.pc = "request" => fx.pauses = k
          /\ fx.pc \notin {"await", "request"} => fx.pauses = Max(k - 1, 0)

\* the third request is in flight: the first page carried the cursor 100,
\* the second the cursor "30", all items of both pages are emitted and two
\* pauses were taken
C17_Witness ==
    /\ fx.kind = "biorxiv" /\ fx.pc = "await"
    /\ Len(fx.reqs) = 3
    /\ fx.reqs[1].cursor = 0 /\ fx.reqs[2].cursor = 100 /\ fx.reqs[3].cursor = 30
    /\ Len(served[1].collection) = 2 /\ Len(emitted) = 3
    /\ fx.pauses = 2

\* the records emitted when request i was issued: the hits of the pages
\* received before it
EmittedBefore(i) == SumSeq([j \in 1..(i - 1) |-> HitCount(served[j])])

\* the server never returned more items than a request asked for
ServerObeys ==
    \A j \in 1..Len(served) : HitCount(served[j]) <= fx.reqs[j].limit

\* at every page request skip is the number of records emitted so far and
\* less than limit, and the length asked for is min(page_size, limit - skip);
\* against a server that returns no more than asked, no more than limit
\* records are emitted
SkipInvariant ==
    /\ \A i \in 1..Len(fx.reqs) :
          /\ fx.reqs[i].skip < fx.limit
          /\ fx.reqs[i].limit = Min(fx.page_size, fx.limit - fx.reqs[i].skip)
          /\ i <= Len(served) + 1 /\ fx.reqs[i].skip = EmittedBefore(i)
    /\ fx.pc = "await" => fx.reqs[Len(fx.reqs)].skip = Len(emitted)
    /\ ServerObeys => Len(emitted) <= fx.limit

\* C18 as stated: the skip invariant, the length asked for being at least 1
\* at every page request of every fetch.
C18_Original ==
    fx.kind = "chemrxiv" =>
        /\ SkipInvariant
        /\ \A i \in 1..Len(fx.reqs) : fx.reqs[i].limit >= 1

\* C18: at every page request of the offset-paged fetch skip is the number
\* of records emitted so far and less than limit, and the length asked for
\* is min(page_size, limit - skip), which is at least 1 when page_size is at
\* least 1; if the server never returns more items than asked for, the
\* records emitted never exceed limit.
C18_SkipInvariant ==
    fx.kind = "chemrxiv" =>
        /\ SkipInvariant
        /\ fx.page_size >= 1 => \A i \in 1..Len(fx.reqs) : fx.reqs[i].limit >= 1

\* the second request of a fetch with limit 3 and page_size 2 is in flight:
\* two records are emitted, skip is 2 and one item is asked for
C18_Witness ==
    /\ fx.kind = "chemrxiv" /\ fx.pc = "await"
    /\ fx.limit = 3 /\ fx.page_size = 2
    /\ Len(fx.reqs) = 2 /\ Len(emitted) = 2
    /\ fx.reqs[2].skip = 2 /\ fx.reqs[2].limit = 1
    /\ ServerObeys

\* C13: when the embed or the upsert call of a batch fails, the run is over
\* with the error: the failing call is the last call of the run, every call
\* before it was for an earlier batch and succeeded, and no step (no pull
\* from the fetcher, no call) follows; the step of the failure
\* issues for the batch one failed embed, or one embed and one failed upsert,
\* and leaves the store as the earlier batches left it, or with all points
\* of the batch upserted into it; after a failed embed it is as it was.
C13_StageFailure ==
    /\ [](pl.pc = "failed" =>
            /\ ~ENABLED NextPipeline
            /\ ~calls[Len(calls)].ok
            /\ \A i \in 1..(Len(calls) - 1) : calls[i].ok
            /\ Len(R) = pl.pos
            /\ calls[Len(calls)].batch = pl.chunk
            /\ Flatten(SelectSeq(UpsertCalls, LAMBDA c : c.ok)) \o pl.chunk = R)
    /\ [][(pl.pc = "loop" /\ pl'.pc = "failed") =>
            LET batch == pl'.chunk
                embed(ok) == [op |-> "embed", ok |-> ok, batch |-> batch]
                upsert == [op |-> "upsert", ok |-> FALSE, batch |-> batch]
            IN  /\ batch # <<>>
                /\ \/ calls' = calls \o <<embed(FALSE)>> /\ store' = store
                   \/ /\ calls' = calls \o <<embed(TRUE), upsert>>
                      /\ store' \in {store, Upsert(store, PointsOf(batch))}
         ]_vars

\* the upsert of the second batch has failed: two batches of 100 were
\* embedded, the points of the first are in the store, the run is over
C13_Witness ==
    /\ pl.pc = "failed" /\ Len(R) = 2 * CHUNK_SIZE
    /\ Len(calls) = 4 /\ calls[4].op = "upsert" /\ ~calls[4].ok
    /\ store = Upsert({}, PointsOf(calls[2].batch))
    /\ store # Upsert(store, PointsOf(calls[4].batch))

\* C19: the pending batch never holds more than CHUNK_SIZE records, and
\* fewer while the loop waits for a record; the step that pulls the record
\* making it CHUNK_SIZE issues the embed and upsert calls of the batch; a
\* record is pulled only when every batch before it has been embedded and
\* upserted with success (the calls made are the batches of the records
\* pulled, in order, each embed followed at once by the upsert of the same
\* batch); so at most one embed or upsert is in hand at any time.
C19_StrictSequencing ==
    /\ [](/\ Len(pl.chunk) <= CHUNK_SIZE
          /\ pl.pc = "loop" => Len(pl.chunk) < CHUNK_SIZE
          /\ \A i \in 1..Len(calls) :
                /\ calls[i].op = (IF i % 2 = 1 THEN "embed" ELSE "upsert")
                /\ i % 2 = 0 => calls[i].batch = calls[i - 1].batch
                /\ i < Len(calls) => calls[i].ok
          /\ pl.pc = "loop" => Flatten(UpsertCalls) \o pl.chunk = R)
    /\ [][R' # R =>
            /\ pl.pc = "loop" /\ Len(R') = Len(R) + 1
            /\ \A i \in 1..Len(calls) : calls[i].ok
            /\ Len(calls) % 2 = 0
            /\ Len(pl.chunk) + 1 = CHUNK_SIZE => Len(calls') > Len(calls)
            /\ Len(pl.chunk) + 1 < CHUNK_SIZE => calls' = calls
         ]_vars

\* one batch was flushed and the pending batch is one record short of the
\* second
C19_Witness ==
    /\ pl.pc = "loop" /\ Len(R) = 2 * CHUNK_SIZE - 1
    /\ Len(calls) = 2 /\ Len(calls[2].batch) = CHUNK_SIZE
    /\ Len(pl.chunk) = CHUNK_SIZE - 1

(***************************************************************************)
(* index.index and index._ensure_collection: one ingestion run.  Every     *)
(* call to the store is a step and may raise (the store is not reachable). *)
(***************************************************************************)
MaxResults == 150

\* limit of ArxivFetcher.fetch_papers, which _process_arxiv leaves at its
\* default
ArxivDefaultLimit == 10000

IndexSources == {"arxiv", "biorxiv", "medrxiv", "chemrxiv", "zenodo"}

\* the snapshot files of the runs of index()
IndexFiles == FilesUpTo(2)

IndexFrame(source, start_date, end_date, max_results) ==
    [pc |-> "ensure", source |-> source, start_date |-> start_date,
     end_date |-> end_date, category |-> None, query |-> None,
     max_results |-> max_results, error |-> "", k |-> 0,
     coll0 |-> coll, store0 |-> store]

\* a call to the store returns, or raises
ClientOutcomes == {"ok", "raise"}

Raised(error) == [ix EXCEPT !.pc = "raised", !.error = error]

\* `if client.collection_exists(QDRANT_COLLECTION_NAME): return`
IndexCollectionExists ==
    /\ ix.pc = "ensure"
    /\ \E outcome \in ClientOutcomes :
          /\ calls' = Append(calls, [op |-> "collection_exists",
                                     ok |-> outcome = "ok"])
          /\ ix' = IF outcome = "raise" THEN Raised("StoreError")
                   ELSE IF coll.exists THEN [ix EXCEPT !.pc = "dispatch"]
                   ELSE [ix EXCEPT !.pc = "create"]
    /\ UNCHANGED <<pl, R, store, store1, other, coll, hashVars, retryVars, fetchVars,
                   queryVars>>

\* client.create_collection(...): the store refuses to create a collection
\* that exists
IndexCreateCollection ==
    /\ ix.pc = "create"
    /\ \E outcome \in ClientOutcomes :
          LET ok == outcome = "ok" /\ ~coll.exists
          IN  /\ calls' = Append(calls, [op |-> "create_collection", ok |-> ok])
              /\ coll' = IF ok
                         THEN [exists |-> TRUE, vectors |-> VectorsConfig,
                               indexes |-> <<>>]
                         ELSE coll
              /\ ix' = IF ok THEN [ix EXCEPT !.pc = "create_index", !.k = 1]
                       ELSE IF coll.exists THEN Raised("Conflict")
                       ELSE Raised("StoreError")
    /\ UNCHANGED <<pl, R, store, store1, other, hashVars, retryVars, fetchVars,
                   queryVars>>

\* the next client.create_payload_index(...); after the last one the
\* function returns
IndexCreatePayloadIndex ==
    /\ ix.pc = "create_index"
    /\ \E outcome \in ClientOutcomes :
          LET index == PayloadIndexes[ix.k]
              ok == outcome = "ok"
          IN  /\ calls' = Append(calls, [op |-> "create_payload_index",
                              ok |-> ok, field_name |-> index.field_name])
              /\ coll' = IF ok
                         THEN [coll EXCEPT !.indexes = Append(coll.indexes, index)]
                         ELSE coll
              /\ ix' = IF ~ok THEN Raised("StoreError")
                       ELSE IF ix.k < Len(PayloadIndexes)
                       THEN [ix EXCEPT !.k = ix.k + 1]
                       ELSE [ix EXCEPT !.pc = "dispatch"]
    /\ UNCHANGED <<pl, R, store, store1, other, hashVars, retryVars, fetchVars,
                   queryVars>>

\* the if/elif chain on source: the fetcher of the source is started under
\* the loop of its _process_*, or ValueError is raised
IndexDispatch ==
    /\ ix.pc = "dispatch"
    /\ IF ix.source = "arxiv"
       THEN /\ fx' = ArxivFrame(ix.start_date, ix.end_date, ix.category,
                                ArxivDefaultLimit)
            /\ served' \in IndexFiles
            /\ pl' = PipeFrame(0, 0)
            /\ ix' = [ix EXCEPT !.pc = "process"]
       ELSE IF ix.source \in {"biorxiv", "medrxiv"}
       THEN IF ix.start_date = NoDate \/ ix.end_date = NoDate
            THEN ix' = Raised("ValueError") /\ UNCHANGED <<fx, served, pl>>
            ELSE /\ fx' = BioFrame(ix.source, ix.start_date, ix.end_date,
                                   ix.category)
                 /\ pl' = PipeFrame(0, 0)
                 /\ ix' = [ix EXCEPT !.pc = "process"]
                 /\ UNCHANGED served
       ELSE IF ix.source = "chemrxiv"
       THEN /\ fx' = ChemFrame(ix.max_results, ChemPageSize, ix.query)
            /\ pl' = PipeFrame(0, 0)
            /\ ix' = [ix EXCEPT !.pc = "process"]
            /\ UNCHANGED served
       ELSE ix' = Raised("ValueError") /\ UNCHANGED <<fx, served, pl>>
    /\ UNCHANGED <<R, calls, store, store1, other, coll, emitted, consumed, hashVars,
                   retryVars, queryVars>>

\* the fetcher has raised (a record that does not normalize, a cursor that
\* is no number): the exception leaves the loop of _process_*
ProcessFetchError ==
    /\ pl.pc = "loop"
    /\ fx.pc = "raised" /\ consumed = Len(emitted)
    /\ pl' = [pl EXCEPT !.pc = "raised"]
    /\ UNCHANGED <<R, calls, store, store1, other, ix, coll, hashVars, retryVars,
                   fetchVars, queryVars>>

\* _process_* is over: index returns, or the exception leaves index
IndexReturn ==
    /\ ix.pc = "process"
    /\ pl.pc \in {"done", "failed", "raised"}
    /\ ix' = IF pl.pc = "done" THEN [ix EXCEPT !.pc = "returned"]
             ELSE IF pl.pc = "failed" THEN Raised("StageError")
             ELSE Raised("FetchError")
    /\ UNCHANGED <<pl, R, calls, store, store1, other, coll, hashVars, retryVars,
                   fetchVars, queryVars>>

(***************************************************************************)
(* SpecIndex: one run of index() for every source, with and without the    *)
(* dates, onto a store with or without the collection.                     *)
(***************************************************************************)
InitIndex ==
    /\ md5tab \in { m \in PipeMd5Tables : m["s2"] = Rep(0, 16) }
    /\ ids = <<>>
    /\ coll \in {AbsentCollection, CreatedCollection}
    /\ store = IF coll.exists THEN OldPoints(md5tab) ELSE {}
    /\ \E source \in IndexSources, start_date \in {NoDate, <<2024, 1, 1>>},
          end_date \in {NoDate, <<2024, 1, 2>>}, max_results \in {0, MaxResults} :
          ix = IndexFrame(source, start_date, end_date, max_results)
    /\ pl = IdlePl /\ R = <<>> /\ calls = <<>> /\ store1 = {}
    /\ other = NoneObj
    /\ RetryIdle /\ FetchIdle /\ QueryIdle

NextIndex ==
    \/ IndexCollectionExists
    \/ IndexCreateCollection
    \/ IndexCreatePayloadIndex
    \/ IndexDispatch
    \/ ArxivLine
    \/ ArxivResume
    \/ BioRequest
    \/ BioResponse
    \/ BioEmit
    \/ BioResume
    \/ BioSleep
    \/ ChemRequest
    \/ ChemLoopExit
    \/ ChemResponse
    \/ ChemEmit
    \/ ChemResume
    \/ ChemSleep
    \/ RetryAttempt
    \/ RetrySleep
    \/ ProcessYield
    \/ ProcessEnd
    \/ ProcessFetchError
    \/ IndexReturn

SpecIndex == InitIndex /\ [][NextIndex]_vars

\* a page request of the paginated fetcher has failed after its retries: the
\* fetch is over with its last request unanswered
RequestFailed ==
    /\ fx.kind \in {"biorxiv", "chemrxiv"}
    /\ fx.pc = "done"
    /\ Len(fx.reqs) = Len(served) + 1

\* a response of the run was not JSON
UnparsableResponse ==
    /\ fx.kind \in {"biorxiv", "chemrxiv"}
    /\ \E i \in 1..Len(served) : ~served[i].json

\* an error has occurred in the run: a page request failed after retries, an
\* unparsable response, a malformed record (or line, or cursor), a failed
\* embed or upsert or other call to the store, a configuration error
ErrorOccurred ==
    \/ RequestFailed
    \/ UnparsableResponse
    \/ fx.pc = "raised"
    \/ \E i \in 1..Len(calls) : ~calls[i].ok
    \/ ix.error = "ValueError"

\* C11: a run of index in which an error has occurred does not end as a
\* normal completion: it ends with an error raised to the caller.
C11_ErrorsPropagate ==
    (ix.pc \in {"returned", "raised"} /\ ErrorOccurred) => ix.pc = "raised"

\* C12: when index raises the configuration error (a cursor-paged source
\* without start_date or end_date, an unknown source), no call to the store
\* and no page request has been issued in the run, and the store is as it
\* was.
C12_ConfigErrorFirst ==
    ix.error = "ValueError" =>
        /\ calls = <<>>
        /\ fx = IdleFx /\ rq = IdleRq
        /\ coll = ix.coll0 /\ store = ix.store0

\* C14: once a page request of a paginated fetcher has failed after its
\* retries, the fetcher emits no record, issues no request and receives no
\* page any more; the loop goes on taking what was emitted, and when it is
\* over without a failed embed or upsert, the batches upserted are the
\* records emitted, in order, the trailing batch included, and each of
\* them has its point in the store; no step of a run removes a point.
C14_FetchAbortKeepsEmitted ==
    /\ [](RequestFailed =>
            /\ rq = IdleRq
            /\ pl.pc \in {"loop", "done", "failed"}
            /\ pl.pc = "loop" => ENABLED ProcessYield \/ ENABLED ProcessEnd
            /\ pl.pc = "done" =>
                  /\ Flatten(UpsertCalls) = emitted
                  /\ \A i \in 1..Len(calls) : calls[i].ok
                  /\ \A i \in 1..Len(emitted) :
                        \E x \in store : x.id = get_point_id(emitted[i].paper_id))
    /\ [][RequestFailed =>
            fx' = fx /\ emitted' = emitted /\ served' = served /\ rq' = rq]_vars
    /\ [][\A x \in store : \E y \in store' : y.id = x.id]_vars

\* the third page request of a biorxiv run failed after two pages of
\* IndexPageLen records: index has returned with a full batch and the
\* trailing batch upserted
C14_Witness ==
    /\ RequestFailed /\ fx.kind = "biorxiv"
    /\ ix.pc = "returned"
    /\ Len(emitted) = 2 * IndexPageLen
    /\ BatchSizes = <<CHUNK_SIZE, 2 * IndexPageLen - CHUNK_SIZE>>
    /\ ix.store0 # {} /\ ix.store0 \ store # {}

\* _ensure_collection has returned in the run
EnsureReturned ==
    \/ ix.pc \in {"dispatch", "process", "returned"}
    \/ ix.pc = "raised" /\ ix.error \notin {"StoreError", "Conflict"}

\* C15: when the collection exists at the start of the run, no
\* create_collection and no create_payload_index call is issued, the
\* collection stays as it was and so does the store until the first upsert;
\* when it does not exist and _ensure_collection has returned, the
\* collection exists with indexes on paper_id, source, authors, title,
\* abstract, update_date and categories, one create call each; and every
\* embed and upsert call of the run comes after _ensure_collection has
\* returned, after all its calls.
C15_EnsureCollection ==
    ix.pc # "idle" =>
        /\ ix.coll0.exists =>
              /\ coll = ix.coll0
              /\ \A i \in 1..Len(calls) :
                    calls[i].op \notin {"create_collection", "create_payload_index"}
              /\ UpsertCalls = <<>> => store = ix.store0
        /\ (~ix.coll0.exists /\ EnsureReturned) =>
              /\ coll.exists
              /\ Len(coll.indexes) = 7
              /\ { coll.indexes[i].field_name : i \in 1..7 } =
                    {"paper_id", "source", "authors", "title", "abstract",
                     "update_date", "categories"}
              /\ Len(SelectSeq(calls, LAMBDA c : c.op = "create_collection")) = 1
              /\ Len(SelectSeq(calls, LAMBDA c : c.op = "create_payload_index")) = 7
        /\ \A i \in 1..Len(calls) :
              calls[i].op \in {"embed", "upsert"} =>
                  /\ EnsureReturned
                  /\ \A j \in i..Len(calls) : calls[j].op \in {"embed", "upsert"}
        /\ ~EnsureReturned => UpsertCalls = <<>>

\* a run onto a store without the collection has created it with its seven
\* indexes and has then upserted two batches
C15_Witness ==
    /\ ix.pc = "returned" /\ ~ix.coll0.exists
    /\ Len(calls) = 13 /\ calls[1].op = "collection_exists"
    /\ calls[9].op = "create_payload_index" /\ calls[9].field_name = "categories"
    /\ calls[13].op = "upsert"
    /\ coll = CreatedCollection /\ store # {}


(***************************************************************************)
(* SpecConcurrent: two runs of index() against one store, each a process   *)
(* of its own (two invocations of the command line).  The variables of a   *)
(* run hold the run that takes the next step, and `other` the frames of    *)
(* the run that waits; the store (coll, store) is the one thing they       *)
(* share.  Both runs read the arxiv snapshot, or one of them is a run over *)
(* chemrxiv that asks for no result.                                       *)
(***************************************************************************)

\* the frames of a run that has not started
WaitingRun(frame) ==
    [ix |-> frame, pl |-> IdlePl, R |-> <<>>, calls |-> <<>>, fx |-> IdleFx,
     served |-> <<>>, emitted |-> <<>>, consumed |-> 0, rq |-> IdleRq,
     http |-> <<>>]

\* index() has returned or raised
Ended(frame) == frame.pc \in {"returned", "raised"}

\* the scheduler takes the running process off and puts the other one on;
\* a run that is over takes no step any more
Switch ==
    /\ other # NoneObj
    /\ ~Ended(other.ix)
    /\ other' = [ix |-> ix, pl |-> pl, R |-> R, calls |-> calls, fx |-> fx,
                 served |-> served, emitted |-> emitted,
                 consumed |-> consumed, rq |-> rq, http |-> http]
    /\ ix' = other.ix /\ pl' = other.pl /\ R' = other.R
    /\ calls' = other.calls /\ fx' = other.fx /\ served' = other.served
    /\ emitted' = other.emitted /\ consumed' = other.consumed
    /\ rq' = other.rq /\ http' = other.http
    /\ UNCHANGED <<store, store1, coll, hashVars, queryVars>>

\* the runs of the model: over the arxiv snapshot with or without a start
\* date, and over chemrxiv with max_results = 0
ConcurrentRuns ==
    { IndexFrame("arxiv", start_date, NoDate, 0) :
          start_date \in {NoDate, <<2023, 6, 1>>} }
      \cup { IndexFrame("chemrxiv", NoDate, NoDate, 0) }

InitConcurrent ==
    /\ md5tab \in { m \in PipeMd5Tables : m["s2"] = Rep(0, 16) }
    /\ ids = <<>>
    /\ coll \in {AbsentCollection, CreatedCollection}
    /\ store = IF coll.exists THEN OldPoints(md5tab) ELSE {}
    /\ ix \in ConcurrentRuns
    /\ \E frame \in ConcurrentRuns : other = WaitingRun(frame)
    /\ pl = IdlePl /\ R = <<>> /\ calls = <<>> /\ store1 = {}
    /\ RetryIdle /\ FetchIdle /\ QueryIdle

NextConcurrent ==
    \/ IndexCollectionExists
    \/ IndexCreateCollection
    \/ IndexCreatePayloadIndex
    \/ IndexDispatch
    \/ ArxivLine
    \/ ArxivResume
    \/ ChemLoopExit
    \/ ProcessYield
    \/ ProcessEnd
    \/ ProcessFetchError
    \/ IndexReturn
    \/ Switch

SpecConcurrent == InitConcurrent /\ [][NextConcurrent]_vars

\* the points a run has upserted, batch after batch
Upserted(run_calls) ==
    Flatten(SelectSeq(run_calls, LAMBDA c : c.op = "upsert" /\ c.ok))

\* the store after the run of the first frames and then the run of the
\* second, from the store the runs started on
OneAfterTheOther(first, second) ==
    Upsert(Upsert(ix.store0, PointsOf(Upserted(first))),
           PointsOf(Upserted(second)))

\* C16: two runs of index() that execute concurrently against one store
\* need no mutual exclusion: whatever the interleaving, no run fails for
\* what the other run did to the store, and when both have returned the
\* collection, its indexes and its points are what the two runs leave when
\* one is executed after the other.
C16_NoMutualExclusion ==
    /\ ix.error # "Conflict"
    /\ other.ix.error # "Conflict"
    /\ (ix.pc = "returned" /\ other.ix.pc = "returned") =>
          /\ coll = CreatedCollection
          /\ store \in { OneAfterTheOther(calls, other.calls),
                         OneAfterTheOther(other.calls, calls) }


(***************************************************************************)
(* SpecRuns: ingestion runs one after another onto a collection that       *)
(* starts empty.  Each run is the loop of _process_* over a stream of its  *)
(* own, of up to MaxRefetch records; the streams of the longer periods     *)
(* hold records whose paper_id is the empty string.  A run that has ended, *)
(* well or not, may be followed by another.                                *)
(***************************************************************************)
MaxRuns == 2

\* the streams of the runs: the ids recur with every period up to Len(KeySeq)
RunShapes == 1..Len(KeySeq)

\* the frame of the n-th run
RunFrame(shape, n) ==
    [pc |-> "loop", run |-> 1, shape |-> shape, max_fetch |-> MaxRefetch,
     pos |-> 0, chunk |-> <<>>, n |-> n]

\* index() is called again: a new fetcher, an empty chunk, the same store
ProcessNewRun ==
    /\ pl.pc \in {"done", "failed"}
    /\ pl.n < MaxRuns
    /\ \E shape \in RunShapes : pl' = RunFrame(shape, pl.n + 1)
    /\ R' = <<>> /\ calls' = <<>>
    /\ store1' = store
    /\ UNCHANGED <<store, ix, coll, other, hashVars, retryVars, fetchVars,
                   queryVars>>

InitRuns ==
    /\ md5tab \in PipeMd5Tables
    /\ ids = <<>>
    /\ \E shape \in RunShapes : pl = RunFrame(shape, 1)
    /\ R = <<>> /\ calls = <<>>
    /\ store = {} /\ store1 = {}
    /\ ix = IdleIx /\ coll = CreatedCollection /\ other = NoneObj
    /\ RetryIdle /\ FetchIdle /\ QueryIdle

NextRuns ==
    \/ ProcessYield
    \/ ProcessEnd
    \/ ProcessNewRun

SpecRuns == InitRuns /\ [][NextRuns]_vars


\* the batches the store has applied in the current run
AppliedBatches == SelectSeq(UpsertCalls, LAMBDA c : c.ok)

\* the records of the current run whose paper_id is the empty string
EmptyKeyRecords == SelectSeq(R, LAMBDA paper : paper.paper_id = "")

StoreInvariant ==
    /\ \A p \in store : p.id = get_point_id(p.payload.paper_id)
    /\ \A p, q \in store : p.payload.paper_id = q.payload.paper_id => p = q
    /\ Flatten(AppliedBatches) \o pl.chunk = R
    /\ pl.pc = "failed" => calls # <<>> /\ ~calls[Len(calls)].ok
    /\ (\E k \in 1..Len(AppliedBatches) :
          \E i \in 1..Len(AppliedBatches[k].batch) :
              AppliedBatches[k].batch[i].paper_id = "") =>
          \E p \in store : p.id = get_point_id("") /\ p.payload.paper_id = ""

\* C21: in every sequence of ingestion runs onto a collection that starts
\* empty, every point of the store has the id derived from the paper_id of
\* its payload, no two points carry the same paper_id, no step removes a
\* point id from the store, and a record whose paper_id is the empty string
\* is neither skipped nor the cause of a failure: it goes into its batch
\* like any other record and is stored under the id derived from "", so
\* that all such records share one point.
C21_StoreInvariant ==
    /\ []StoreInvariant
    /\ [][IdsOf(store) \subseteq IdsOf(store')]_vars

\* a second run has ended well; both runs stored points, records without a
\* paper_id were upserted more than once, and their one point is stored
C21_Witness ==
    /\ pl.n = 2 /\ pl.pc = "done"
    /\ store1 # {} /\ Cardinality(store) >= 3
    /\ Len(AppliedBatches) = 2
    /\ Len(EmptyKeyRecords) >= 2
    /\ \E p \in store1 : p.payload.paper_id = ""
    /\ Cardinality({ p \in store : p.payload.paper_id = "" }) = 1


(***************************************************************************)
(* SpecReindex: runs of index() one after another against one store, from  *)
(* a store without the collection.  A run that has returned or raised,     *)
(* wherever it raised, may be followed by another; each run starts with    *)
(* frames of its own and finds the store as the runs before it left it.    *)
(***************************************************************************)

\* index() is called again, after the run before it is over
IndexAgain ==
    /\ Ended(ix)
    /\ ix' \in ConcurrentRuns
    /\ pl' = IdlePl /\ R' = <<>> /\ calls' = <<>>
    /\ fx' = IdleFx /\ served' = <<>> /\ emitted' = <<>> /\ consumed' = 0
    /\ UNCHANGED <<store, store1, coll, other, hashVars, retryVars, queryVars>>

InitReindex ==
    /\ md5tab \in { m \in PipeMd5Tables : m["s2"] = Rep(0, 16) }
    /\ ids = <<>>
    /\ coll = AbsentCollection /\ store = {}
    /\ ix \in ConcurrentRuns
    /\ pl = IdlePl /\ R = <<>> /\ calls = <<>> /\ store1 = {}
    /\ other = NoneObj
    /\ RetryIdle /\ FetchIdle /\ QueryIdle

NextReindex ==
    \/ IndexCollectionExists
    \/ IndexCreateCollection
    \/ IndexCreatePayloadIndex
    \/ IndexDispatch
    \/ ArxivLine
    \/ ArxivResume
    \/ ChemLoopExit
    \/ ProcessYield
    \/ ProcessEnd
    \/ ProcessFetchError
    \/ IndexReturn
    \/ IndexAgain

SpecReindex == InitReindex /\ [][NextReindex]_vars

\* the field indexes declared on the collection
DeclaredIndexes == { coll.indexes[i].field_name : i \in 1..Len(coll.indexes) }

SevenIndexes ==
    {"paper_id", "source", "authors", "title", "abstract", "update_date",
     "categories"}

\* C22: after any sequence of index runs, runs that failed between
\* create_collection and the last create_payload_index included, whenever
\* _ensure_collection has returned normally the collection exists and the
\* indexes on paper_id, source, authors, title, abstract, update_date and
\* categories are all declared, so that no upsert is issued into a
\* collection that lacks one of them.
C22_IndexCompleteness ==
    /\ EnsureReturned => coll.exists /\ DeclaredIndexes = SevenIndexes
    /\ UpsertCalls # <<>> => coll.exists /\ DeclaredIndexes = SevenIndexes

=============================================================================
